---- MODULE Spec2Model ----
(***************************************************************************)
(* A model of the sandman BED reader (src/src/bed/reader.rs), its line     *)
(* parsers (src/src/bed/parser.rs), the Tabix index (src/src/tabix/mod.rs) *)
(* and the symbol store (src/src/store).                                   *)
(*                                                                         *)
(* Text is a sequence of one-byte tokens (strings).  "sp" is a blank or a  *)
(* tab, "nl" a line feed, "0".."9" the digits; every other token is a      *)
(* letter.  The keywords "track" and "browser" are single tokens.          *)
(* An Option is a sequence: <<>> is None, <<v>> is Some(v).                *)
(***************************************************************************)
EXTENDS Integers, Sequences, FiniteSets, TLC

VARIABLES
    file,           \* the data source: [kind, blocks, index] (never written)
    pos,            \* position of the BufReader inside the source
    format,         \* Reader.format: the sub-format detected at open
    index,          \* Reader.index: <<>> or <<[seqnames, ref_indices]>>
    bgz_buffer,     \* Reader.bgz_buffer: text decompressed but not yet returned
    track_line,     \* Reader.track_line: Option<Track>
    last_browser,   \* Reader.last_browser: Option<BrowserMeta>
    reset_browser,  \* Reader.reset_browser
    resolver,       \* the TidStore behind Reader.resolver: names, id = position
    out,            \* the caller's Vec<BedRecord> handed to the region queries
    browser_meta,   \* the caller's Option<BrowserMeta> handed to read_line_with_meta
    last,           \* the last call and what it returned
    hist,           \* bookkeeping of the calls made since open
    given,          \* the ids the store handed out: a set of [name, id, str]
    peers           \* the readers that share the store, when several do

vars == <<file, pos, format, index, bgz_buffer, track_line, last_browser, reset_browser,
          resolver, out, browser_meta, last, hist, given, peers>>

-----------------------------------------------------------------------------
(* Sequences                                                               *)

Min(S) == CHOOSE x \in S : \A y \in S : x <= y

Max(S) == CHOOSE x \in S : \A y \in S : x >= y

Drop(s, n) == SubSeq(s, n + 1, Len(s))

Take(s, n) == SubSeq(s, 1, n)

RECURSIVE Flatten(_)
Flatten(ss) == IF ss = <<>> THEN <<>> ELSE Head(ss) \o Flatten(Tail(ss))

RECURSIVE SeqSum(_)
SeqSum(s) == IF s = <<>> THEN 0 ELSE Head(s) + SeqSum(Tail(s))

None == <<>>

Some(v) == <<v>>

-----------------------------------------------------------------------------
(* Bytes                                                                   *)

Digits == <<"0", "1", "2", "3", "4", "5", "6", "7", "8", "9">>

IsDigit(t) == \E i \in 1..Len(Digits) : Digits[i] = t

DigitVal(t) == (CHOOSE i \in 1..Len(Digits) : Digits[i] = t) - 1

\* " \t\r\n": what is_not(" \t\r\n") stops at and multispace1 accepts
IsSpace(t) == t \in {"sp", "nl"}

\* length of the longest prefix of s made of white space
SpaceLen(s) ==
    LET stop == {i \in 1..Len(s) : ~IsSpace(s[i])}
    IN  IF stop = {} THEN Len(s) ELSE Min(stop) - 1

\* length of the longest prefix of s made of blanks and tabs (space1)
BlankLen(s) ==
    LET stop == {i \in 1..Len(s) : s[i] # "sp"}
    IN  IF stop = {} THEN Len(s) ELSE Min(stop) - 1

\* length of the longest prefix of s free of white space
WordLen(s) ==
    LET stop == {i \in 1..Len(s) : IsSpace(s[i])}
    IN  IF stop = {} THEN Len(s) ELSE Min(stop) - 1

\* length of the longest prefix of s made of digits
DigitLen(s) ==
    LET stop == {i \in 1..Len(s) : ~IsDigit(s[i])}
    IN  IF stop = {} THEN Len(s) ELSE Min(stop) - 1

\* str::trim().is_empty()
IsBlank(s) == \A i \in 1..Len(s) : IsSpace(s[i])

\* std::str::from_utf8(..).is_ok(): "c3" is the lead byte and "a9" the
\* continuation byte of the one two-byte character of the model; every
\* other byte is ASCII
ValidUtf8(s) ==
    \A i \in 1..Len(s) :
       /\ s[i] = "c3" => (i < Len(s) /\ s[i + 1] = "a9")
       /\ s[i] = "a9" => (i > 1 /\ s[i - 1] = "c3")

\* str::to_lowercase, one byte
LowerByte(t) == IF t = "A" THEN "a" ELSE IF t = "B" THEN "b" ELSE t

ToLower(s) == [i \in 1..Len(s) |-> LowerByte(s[i])]

\* str::trim
Trim(s) ==
    LET keep == {i \in 1..Len(s) : ~IsSpace(s[i])}
    IN  IF keep = {} THEN <<>> ELSE SubSeq(s, Min(keep), Max(keep))

-----------------------------------------------------------------------------
(* The symbol store: src/src/store/interning.rs, src/src/store/mod.rs      *)
(* A store is the sequence of the strings interned so far; the symbol of a *)
(* string is its position (string_interner hands out consecutive symbols). *)

DUMMY_TID == <<"__DUMMY_TID__">>

\* name.to_lowercase().trim()
StoreKey(name) ==
    Trim([i \in 1..Len(name) |->
            IF name[i] = "__DUMMY_TID__" THEN "__dummy_tid__" ELSE LowerByte(name[i])])

\* StringInterner::get
Lookup(store, key) ==
    LET hits == {i \in 1..Len(store) : store[i] = key}
    IN  IF hits = {} THEN None ELSE Some(Min(hits))

\* TidStore::find
find(store, name) == Lookup(store, StoreKey(name))

\* StringInterner::get_or_intern, hit being what get found: [store, id]
GetOrIntern(store, key, hit) ==
    IF hit # None
    THEN [store |-> store, id |-> hit[1]]
    ELSE [store |-> Append(store, key), id |-> Len(store) + 1]

\* TidStore::intern: [store, id]
intern(store, name) == GetOrIntern(store, StoreKey(name), find(store, name))

\* TidStore::resolve
resolve(store, sym) == IF sym \in 1..Len(store) THEN Some(store[sym]) ELSE None

\* TidResolver::to_symbol_id
to_symbol_id(store, name) == intern(store, name)

\* TidResolver::dummy_tid
dummy_tid(store) == to_symbol_id(store, DUMMY_TID)

\* Bed3Fields::empty, d being what dummy_tid handed out: [store, rec]
Bed3FieldsEmpty(d) == [store |-> d.store, rec |-> [tid |-> d.id, start |-> 0, end |-> 0]]

\* Reader::blank_record: [store, rec]
blank_record(store) == Bed3FieldsEmpty(dummy_tid(store))

-----------------------------------------------------------------------------
(* The line parsers: src/src/bed/parser.rs                                 *)

\* the value of a string of digits, as the loop of parse_u64 computes it
RECURSIVE DecimalValue(_, _)
DecimalValue(ds, acc) ==
    IF ds = <<>> THEN acc
    ELSE DecimalValue(Tail(ds), acc * 10 + DigitVal(Head(ds)))

\* parse_u64: [ok, val, rest]
parse_u64(input) ==
    LET n == DigitLen(input)
    IN  IF n = 0
        THEN [ok |-> FALSE, val |-> 0, rest |-> input]
        ELSE [ok |-> TRUE, val |-> DecimalValue(Take(input, n), 0), rest |-> Drop(input, n)]

\* parse_string: [ok, val, rest]
parse_string(input) ==
    LET n == WordLen(input)
    IN  IF n = 0
        THEN [ok |-> FALSE, val |-> <<>>, rest |-> input]
        ELSE [ok |-> TRUE, val |-> Take(input, n), rest |-> Drop(input, n)]

\* nom multispace1: [ok, val, rest]
multispace1(input) ==
    LET n == SpaceLen(input)
    IN  [ok |-> n > 0, val |-> <<>>, rest |-> Drop(input, n)]

\* nom space1: [ok, val, rest]
space1(input) ==
    LET n == BlankLen(input)
    IN  [ok |-> n > 0, val |-> <<>>, rest |-> Drop(input, n)]

\* nom line_ending: [ok, val, rest]
line_ending(input) ==
    IF input # <<>> /\ Head(input) = "nl"
    THEN [ok |-> TRUE, val |-> <<>>, rest |-> Tail(input)]
    ELSE [ok |-> FALSE, val |-> <<>>, rest |-> input]

\* one parser of a tuple, by name
RunParser(kind, input) ==
    CASE kind = "parse_string" -> parse_string(input)
      [] kind = "parse_u64"    -> parse_u64(input)
      [] kind = "multispace1"  -> multispace1(input)
      [] kind = "line_ending"  -> line_ending(input)

\* nom's tuple of parsers: each runs on what the one before left, and the
\* first to fail fails the tuple; [ok, vals, rest]
RECURSIVE Tuple(_, _, _)
TupleStep(kinds, acc, r) ==
    IF ~r.ok THEN [ok |-> FALSE, vals |-> acc, rest |-> r.rest]
    ELSE Tuple(Tail(kinds), r.rest, Append(acc, r.val))

Tuple(kinds, input, acc) ==
    IF kinds = <<>> THEN [ok |-> TRUE, vals |-> acc, rest |-> input]
    ELSE TupleStep(kinds, acc, RunParser(Head(kinds), input))

\* the tuple of parse_bed3_record
Bed3Tuple ==
    <<"parse_string", "multispace1", "parse_u64", "multispace1", "parse_u64",
      "line_ending">>

\* BedRecord::new on the parsed tuple t and the interned name sym
Bed3Record(t, sym) ==
    [ok |-> TRUE, rest |-> t.rest,
     rec |-> [tid |-> sym.id, start |-> t.vals[3], end |-> t.vals[5]],
     store |-> sym.store]

\* parse_bed3_record once the tuple t has run: the name is interned only
\* when the whole tuple has parsed
Bed3Parsed(store, input, t) ==
    IF ~t.ok
    THEN [ok |-> FALSE, rest |-> input,
          rec |-> [tid |-> 0, start |-> 0, end |-> 0], store |-> store]
    ELSE Bed3Record(t, to_symbol_id(store, t.vals[1]))

\* parse_bed3_record: [ok, rest, rec, store]
parse_bed3_record(store, input) == Bed3Parsed(store, input, Tuple(Bed3Tuple, input, <<>>))

\* Bed3Fields::parse_into / Reader::parse_record_into: an Err is BedMismatch
parse_record_into(store, input) == parse_bed3_record(store, input)

\* the key=value pairs of a track line; a letter x stands for name="x", the
\* only key the model writes, and a later pair overwrites an earlier one
RECURSIVE TrackPairs(_, _)
TrackPairs(input, track) ==
    LET n == WordLen(input)
    IN  IF n = 0 THEN track
        ELSE TrackPairs(Drop(Drop(input, n), BlankLen(Drop(input, n))),
                        [name |-> Some(Take(input, n))])

\* parse_track_line: [ok, track]
parse_track_line(line) ==
    LET sp == space1(Tail(line))
    IN  IF line = <<>> \/ Head(line) # "track" \/ ~sp.ok
        THEN [ok |-> FALSE, track |-> [name |-> None]]
        ELSE [ok |-> TRUE, track |-> TrackPairs(sp.rest, [name |-> None])]

\* HashMap::insert / HashMap::extend: the pairs of b win
AttrsExtend(a, b) ==
    [k \in DOMAIN a \cup DOMAIN b |-> IF k \in DOMAIN b THEN b[k] ELSE a[k]]

NoAttrs == [k \in {} |-> <<>>]

\* the loop of parse_browser_line over parse_browser_pair: key, blanks, value
RECURSIVE BrowserPairs(_, _)
BrowserPairs(input, attrs) ==
    LET k  == WordLen(input)
        sp == space1(Drop(input, k))
        v  == WordLen(sp.rest)
    IN  IF IsBlank(input) \/ k = 0 \/ ~sp.ok THEN attrs
        ELSE BrowserPairs(
                Drop(Drop(sp.rest, v), SpaceLen(Drop(sp.rest, v))),
                AttrsExtend(attrs, [x \in {Take(input, k)} |-> Take(sp.rest, v)]))

\* parse_browser_line: [ok, meta]
parse_browser_line(line) ==
    LET sp == space1(Tail(line))
    IN  IF line = <<>> \/ Head(line) # "browser" \/ ~sp.ok
        THEN [ok |-> FALSE, meta |-> [attrs |-> NoAttrs]]
        ELSE [ok |-> TRUE, meta |-> [attrs |-> BrowserPairs(sp.rest, NoAttrs)]]

-----------------------------------------------------------------------------
(* The data source.  A plain file is one run of text and the position is a *)
(* byte offset into it.  A BGZF file is a sequence of blocks, block i      *)
(* lying at compressed offset (i-1) * BlockCSize and decompressing to      *)
(* blocks[i]; the end-of-file marker block follows the last block.         *)

BlockCSize == 2

PlainText(f) == Flatten(f.blocks)

\* str::find('\n'): the index of the first line feed of s, or 0
FirstNl(s) ==
    LET nls == {i \in 1..Len(s) : s[i] = "nl"}
    IN  IF nls = {} THEN 0 ELSE Min(nls)

\* the line that ends at the line feed n of rest, or with rest when n = 0
LineUpTo(rest, p, n) ==
    IF n = 0 THEN [line |-> rest, pos |-> p + Len(rest)]
    ELSE [line |-> Take(rest, n), pos |-> p + n]

\* AsyncBufReadExt::read_line on the plain reader: [line, pos]; an empty
\* line is the end of the file
PlainReadLine(f, p) ==
    LineUpTo(Drop(PlainText(f), p), p, FirstNl(Drop(PlainText(f), p)))

EofOffset(f) == Len(f.blocks) * BlockCSize

IsBlockOffset(f, p) == p % BlockCSize = 0 /\ p >= 0 /\ p < EofOffset(f)

\* pufferfish read_bgzf_block(Some(is_bgzf_eof)) with the reader at compressed
\* offset p: [res, block, pos].  "Some": a block was decompressed; "None": the
\* end-of-file marker; "Err": no block starts at p.
read_bgzf_block(f, p) ==
    IF IsBlockOffset(f, p)
    THEN [res |-> "Some", block |-> f.blocks[(p \div BlockCSize) + 1], pos |-> p + BlockCSize]
    ELSE IF p = EofOffset(f)
    THEN [res |-> "None", block |-> <<>>, pos |-> p]
    ELSE [res |-> "Err", block |-> <<>>, pos |-> p]

-----------------------------------------------------------------------------
(* Streaming: src/src/bed/reader.rs                                        *)
(* A reader r is the record of the Reader's mutable fields:                *)
(* [pos, bgz_buffer, track_line, last_browser, reset_browser, resolver].   *)

\* Reader::extract_line_from_buffer: the index of the first line feed, or 0
extract_line_from_buffer(buf) == FirstNl(buf)

RECURSIVE read_bgzf_line(_, _)

\* read_bgzf_line with a line in hand and r what is left: a blank line is
\* skipped
BgzfLineTaken(f, r, line) ==
    IF IsBlank(line) THEN read_bgzf_line(f, r)
    ELSE [r |-> r, res |-> "Some", line |-> line]

\* read_bgzf_line when the buffer holds no whole line, b being the outcome
\* of reading the next block; the block is appended if it is UTF-8 by itself
BgzfLineRefill(f, r, b) ==
    IF b.res = "Err"
    THEN [r |-> [r EXCEPT !.pos = b.pos], res |-> "Err", line |-> <<>>]
    ELSE IF b.res = "None"
    THEN IF r.bgz_buffer = <<>>
         THEN [r |-> [r EXCEPT !.pos = b.pos], res |-> "None", line |-> <<>>]
         ELSE BgzfLineTaken(f, [r EXCEPT !.pos = b.pos, !.bgz_buffer = <<>>],
                            r.bgz_buffer)
    ELSE IF ~ValidUtf8(b.block)
    THEN [r |-> [r EXCEPT !.pos = b.pos], res |-> "Err", line |-> <<>>]
    ELSE read_bgzf_line(f, [r EXCEPT !.pos = b.pos,
                                      !.bgz_buffer = r.bgz_buffer \o b.block])

\* read_bgzf_line, idx being what extract_line_from_buffer found
BgzfLineFrom(f, r, idx) ==
    IF idx > 0
    THEN BgzfLineTaken(f, [r EXCEPT !.bgz_buffer = Drop(r.bgz_buffer, idx)],
                       Take(r.bgz_buffer, idx))
    ELSE BgzfLineRefill(f, r, read_bgzf_block(f, r.pos))

\* Reader::read_bgzf_line: [r, res, line]
read_bgzf_line(f, r) == BgzfLineFrom(f, r, extract_line_from_buffer(r.bgz_buffer))

RECURSIVE read_line_io(_, _)

\* the plain arm of read_line_io, l being the line read
ReadLineIoPlain(f, r, l) ==
    IF l.line = <<>> THEN [r |-> [r EXCEPT !.pos = l.pos], res |-> "None", line |-> <<>>]
    ELSE IF IsBlank(l.line) THEN read_line_io(f, [r EXCEPT !.pos = l.pos])
    ELSE [r |-> [r EXCEPT !.pos = l.pos], res |-> "Some", line |-> l.line]

\* the BGZF arm of read_line_io, l being the outcome of read_bgzf_line
ReadLineIoBgzf(f, l) ==
    IF l.res # "Some" THEN l
    ELSE IF IsBlank(l.line) THEN read_line_io(f, l.r)
    ELSE l

\* Reader::read_line_io: [r, res, line]
read_line_io(f, r) ==
    IF f.kind = "Plain"
    THEN ReadLineIoPlain(f, r, PlainReadLine(f, r.pos))
    ELSE ReadLineIoBgzf(f, read_bgzf_line(f, r))

\* str::starts_with on a keyword
starts_with(line, word) == line # <<>> /\ Head(line) = word

NoRecord == [status |-> "none", err |-> "", track |-> None, rec |-> None]

ErrRecord(e) == [status |-> "err", err |-> e, track |-> None, rec |-> None]

\* the blank record of the reader r, then parse_record_into on the line
ParseIntoBlank(r, line) == parse_record_into(blank_record(r.resolver).store, line)

RECURSIVE read_line(_, _)

\* read_line on a data line, p being the outcome of parse_record_into
ReadLineRecord(r, p) ==
    IF ~p.ok
    THEN [r |-> [r EXCEPT !.resolver = p.store], ret |-> ErrRecord("BedMismatch")]
    ELSE [r |-> [r EXCEPT !.resolver = p.store],
          ret |-> [status |-> "some", err |-> "",
                   track |-> r.track_line, rec |-> Some(p.rec)]]

\* read_line on a track line, t being the outcome of parse_track_line
ReadLineTrack(f, r, t) ==
    IF ~t.ok THEN [r |-> r, ret |-> ErrRecord("BedFormat")]
    ELSE read_line(f, [r EXCEPT !.track_line = Some(t.track)])

\* read_line, l being the outcome of read_line_io
ReadLineOf(f, l) ==
    IF l.res = "Err" THEN [r |-> l.r, ret |-> ErrRecord("Bgzf")]
    ELSE IF l.res = "None" THEN [r |-> l.r, ret |-> NoRecord]
    ELSE IF starts_with(l.line, "track")
    THEN ReadLineTrack(f, l.r, parse_track_line(l.line))
    ELSE IF starts_with(l.line, "browser")
    THEN read_line(f, l.r)
    ELSE ReadLineRecord(l.r, ParseIntoBlank(l.r, l.line))

\* Reader::read_line: [r, ret]
read_line(f, r) == ReadLineOf(f, read_line_io(f, r))

RECURSIVE read_line_with_meta(_, _, _)

\* read_line_with_meta on a data line, r having reset_browser set and p
\* being the outcome of parse_record_into
MetaRecord(r, bm, p) ==
    IF ~p.ok
    THEN [r |-> [r EXCEPT !.resolver = p.store], ret |-> ErrRecord("BedMismatch"),
          meta |-> bm]
    ELSE [r |-> [r EXCEPT !.resolver = p.store],
          ret |-> [status |-> "some", err |-> "",
                   track |-> r.track_line, rec |-> Some(p.rec)],
          meta |-> r.last_browser]

\* read_line_with_meta on a track line
MetaTrack(f, r, bm, t) ==
    IF ~t.ok THEN [r |-> r, ret |-> ErrRecord("BedFormat"), meta |-> bm]
    ELSE read_line_with_meta(f, [r EXCEPT !.track_line = Some(t.track)], bm)

\* what last_browser becomes on a browser line that parsed to meta
MergedBrowser(r, meta) ==
    IF r.reset_browser THEN Some(meta)
    ELSE IF r.last_browser # None
    THEN Some([attrs |-> AttrsExtend(r.last_browser[1].attrs, meta.attrs)])
    ELSE Some(meta)

\* read_line_with_meta on a browser line, b being the outcome of
\* parse_browser_line
MetaBrowser(f, r, bm, b) ==
    IF ~b.ok THEN [r |-> r, ret |-> ErrRecord("BedFormat"), meta |-> bm]
    ELSE read_line_with_meta(
            f, [r EXCEPT !.last_browser = MergedBrowser(r, b.meta),
                         !.reset_browser = FALSE], bm)

\* read_line_with_meta, l being the outcome of read_line_io
MetaOf(f, l, bm) ==
    IF l.res = "Err" THEN [r |-> l.r, ret |-> ErrRecord("Bgzf"), meta |-> bm]
    ELSE IF l.res = "None" THEN [r |-> l.r, ret |-> NoRecord, meta |-> bm]
    ELSE IF starts_with(l.line, "track")
    THEN MetaTrack(f, l.r, bm, parse_track_line(l.line))
    ELSE IF starts_with(l.line, "browser")
    THEN MetaBrowser(f, l.r, bm, parse_browser_line(l.line))
    ELSE MetaRecord([l.r EXCEPT !.reset_browser = TRUE], bm,
                    ParseIntoBlank(l.r, l.line))

\* Reader::read_line_with_meta: [r, ret, meta]; meta is what the call leaves
\* in the caller's browser_meta, given what it held (bm)
read_line_with_meta(f, r, bm) == MetaOf(f, read_line_io(f, r), bm)

\* Reader::seek_to_start
seek_to_start(r) == [r EXCEPT !.pos = 0]

-----------------------------------------------------------------------------
(* The Tabix index: src/src/tabix/mod.rs                                   *)
(* An index file is [names, refs]: the names of the name block in file     *)
(* order and one Reference per declared reference.  A Reference is         *)
(* [bins]: a function from bin numbers to sequences of chunks              *)
(* [start, end] of virtual offsets.                                        *)

\* the byte order of the letters the model uses
ByteOrder == Digits \o <<"A", "B", "_", "a", "b", "c", "d">>

ByteRank(t) == CHOOSE i \in 1..Len(ByteOrder) : ByteOrder[i] = t

\* Ord for String
RECURSIVE StrLess(_, _)
StrLess(a, b) ==
    IF b = <<>> THEN FALSE
    ELSE IF a = <<>> THEN TRUE
    ELSE IF Head(a) # Head(b) THEN ByteRank(Head(a)) < ByteRank(Head(b))
    ELSE StrLess(Tail(a), Tail(b))

\* the iteration order of a BTreeSet<String>
RECURSIVE BTreeSetIter(_)
BTreeSetIter(S) ==
    IF S = {} THEN <<>>
    ELSE LET m == CHOOSE x \in S : \A y \in S \ {x} : StrLess(x, y)
         IN  <<m>> \o BTreeSetIter(S \ {m})

\* Reader::read_tabix: [res, seqnames, ref_indices]; the debug loop over
\* ref_indices[0] indexes out of bounds when no reference is declared
read_tabix(ixfile) ==
    LET names == {ixfile.names[i] : i \in 1..Len(ixfile.names)} \ {<<>>}
    IN  IF Len(ixfile.refs) = 0
        THEN [res |-> "Panic", seqnames |-> <<>>, ref_indices |-> <<>>]
        ELSE [res |-> "Ok", seqnames |-> BTreeSetIter(names), ref_indices |-> ixfile.refs]

\* Iterator::position over seqnames: 0 when absent, else the 1-based place
SeqnamePosition(ix, tid) ==
    LET hits == {i \in 1..Len(ix.seqnames) : ix.seqnames[i] = tid}
    IN  IF hits = {} THEN 0 ELSE Min(hits)

\* every order in which a HashMap may hand out the keys K
RECURSIVE Orders(_)
Orders(K) ==
    IF K = {} THEN {<<>>}
    ELSE UNION {{<<k>> \o o : o \in Orders(K \ {k})} : k \in K}

\* Reader::offsets_for_tid: [res, found, lists]; lists holds one chunk
\* list per iteration order of the HashMap of bins
offsets_for_tid(ix, tid) ==
    LET idx == SeqnamePosition(ix, tid)
    IN  IF idx = 0 THEN [res |-> "Ok", found |-> FALSE, lists |-> {<<>>}]
        ELSE IF idx > Len(ix.ref_indices)
        THEN [res |-> "Panic", found |-> FALSE, lists |-> {<<>>}]
        ELSE LET bins == ix.ref_indices[idx].bins
             IN  [res |-> "Ok", found |-> TRUE,
                  lists |-> {Flatten([i \in 1..Len(o) |-> bins[o[i]]]) :
                                o \in Orders(DOMAIN bins)}]

MAX_POS == 536870912

BIN_OFFSETS == <<0, 1, 9, 73, 585, 4681>>

\* 2^n
RECURSIVE Pow2(_)
Pow2(n) == IF n = 0 THEN 1 ELSE 2 * Pow2(n - 1)

\* x >> n
Shr(x, n) == x \div Pow2(n)

\* lo..=hi pushed in order
RangeIncl(lo, hi) == IF hi < lo THEN <<>> ELSE [i \in 1..(hi - lo + 1) |-> lo + i - 1]

\* region_bins taking end itself, not end - 1, for the last position
region_bins_closed_end(start, end) ==
    IF start >= MAX_POS THEN <<>>
    ELSE LET e == IF end >= MAX_POS THEN MAX_POS - 1 ELSE end
         IN  <<0>>
             \o RangeIncl(BIN_OFFSETS[2] + Shr(start, 26), BIN_OFFSETS[2] + Shr(e, 26))
             \o RangeIncl(BIN_OFFSETS[3] + Shr(start, 23), BIN_OFFSETS[3] + Shr(e, 23))
             \o RangeIncl(BIN_OFFSETS[4] + Shr(start, 20), BIN_OFFSETS[4] + Shr(e, 20))
             \o RangeIncl(BIN_OFFSETS[5] + Shr(start, 17), BIN_OFFSETS[5] + Shr(e, 17))
             \o RangeIncl(BIN_OFFSETS[6] + Shr(start, 14), BIN_OFFSETS[6] + Shr(e, 14))

\* region_bins looking at the bins of start only
region_bins_of_start(start, end) ==
    IF start >= MAX_POS THEN <<>>
    ELSE <<0, BIN_OFFSETS[2] + Shr(start, 26), BIN_OFFSETS[3] + Shr(start, 23),
           BIN_OFFSETS[4] + Shr(start, 20), BIN_OFFSETS[5] + Shr(start, 17),
           BIN_OFFSETS[6] + Shr(start, 14)>>

\* Reader::region_bins
region_bins(start, end) ==
    IF start >= MAX_POS THEN <<>>
    ELSE LET e0 == IF end > 0 THEN end - 1 ELSE 0
             e  == IF e0 >= MAX_POS THEN MAX_POS - 1 ELSE e0
         IN  <<0>>
             \o RangeIncl(BIN_OFFSETS[2] + Shr(start, 26), BIN_OFFSETS[2] + Shr(e, 26))
             \o RangeIncl(BIN_OFFSETS[3] + Shr(start, 23), BIN_OFFSETS[3] + Shr(e, 23))
             \o RangeIncl(BIN_OFFSETS[4] + Shr(start, 20), BIN_OFFSETS[4] + Shr(e, 20))
             \o RangeIncl(BIN_OFFSETS[5] + Shr(start, 17), BIN_OFFSETS[5] + Shr(e, 17))
             \o RangeIncl(BIN_OFFSETS[6] + Shr(start, 14), BIN_OFFSETS[6] + Shr(e, 14))

\* the chunks of the bins of bs, in the order of bs, skipping absent bins
RECURSIVE ChunksOfBins(_, _)
ChunksOfBins(bins, bs) ==
    IF bs = <<>> THEN <<>>
    ELSE (IF Head(bs) \in DOMAIN bins THEN bins[Head(bs)] ELSE <<>>)
         \o ChunksOfBins(bins, Tail(bs))

\* Reader::offsets_for_tid_region: [res, found, lists]
offsets_for_tid_region(ix, tid, start, end) ==
    LET idx == SeqnamePosition(ix, tid)
    IN  IF idx = 0 THEN [res |-> "Ok", found |-> FALSE, lists |-> {<<>>}]
        ELSE IF idx > Len(ix.ref_indices)
        THEN [res |-> "Panic", found |-> FALSE, lists |-> {<<>>}]
        ELSE [res |-> "Ok", found |-> TRUE,
              lists |-> {ChunksOfBins(ix.ref_indices[idx].bins, region_bins(start, end))}]

-----------------------------------------------------------------------------
(* Random access: src/src/bed/reader.rs                                    *)

\* the inner offset one past any block: stands for u64::MAX, which
\* read_bgzf_subblock clamps to the length of the block
U64_MAX == 2147483647

\* a virtual offset: compressed offset of the block, offset inside it
VOffset(coff, inner) == coff * 65536 + inner

\* u64::min
MinOf(a, b) == IF a < b THEN a ELSE b

\* read_bgzf_subblock without the slice: the block is appended in full
SubblockWhole(start, end, buf, b) ==
    IF b.res = "Some"
    THEN [pos |-> b.pos, buf |-> buf \o b.block]
    ELSE [pos |-> b.pos, buf |-> buf]

\* read_bgzf_subblock, b being the outcome of read_bgzf_block: a block that
\* fails to read, like the end-of-file marker, adds nothing and is no error
SubblockOf(start, end, buf, b) ==
    IF b.res = "Some"
    THEN [pos |-> b.pos,
          buf |-> IF MinOf(start, Len(b.block)) < MinOf(end, Len(b.block))
                  THEN buf \o SubSeq(b.block, MinOf(start, Len(b.block)) + 1,
                                     MinOf(end, Len(b.block)))
                  ELSE buf]
    ELSE [pos |-> b.pos, buf |-> buf]

\* Reader::read_bgzf_subblock with the source at p: [pos, buf]
read_bgzf_subblock(f, p, start, end, buf) ==
    SubblockOf(start, end, buf, read_bgzf_block(f, p))

\* the loop `for block in block_start..=block_end` of
\* read_bgzf_bytes_for_region over one range; st is [pos, cur, buf, io] with
\* cur the Option current_block and io the seeks and block reads issued
RECURSIVE ReadRangeBlocks(_, _, _, _, _, _, _)

\* one turn of that loop, sb being the outcome of read_bgzf_subblock
BlockRead(f, st, block, block_start, block_end, ustart, uend, sb) ==
    ReadRangeBlocks(f, [pos |-> sb.pos, cur |-> Some(block), buf |-> sb.buf,
                        io |-> st.io + (IF st.cur # Some(block) THEN 2 ELSE 1)],
                    block + 1, block_start, block_end, ustart, uend)

ReadRangeBlocks(f, st, block, block_start, block_end, ustart, uend) ==
    IF block > block_end THEN st
    ELSE BlockRead(f, st, block, block_start, block_end, ustart, uend,
                   read_bgzf_subblock(f,
                       IF st.cur # Some(block) THEN block ELSE st.pos,
                       IF block = block_start THEN ustart ELSE 0,
                       IF block = block_end THEN uend ELSE U64_MAX,
                       st.buf))

\* the loop `for offset in region` of read_bgzf_bytes_for_region
RECURSIVE ReadRanges(_, _, _)
ReadRanges(f, st, region) ==
    IF region = <<>> THEN st
    ELSE LET offset == Head(region)
         IN  IF offset.start >= offset.end
             THEN ReadRanges(f, st, Tail(region))
             ELSE ReadRanges(f,
                     ReadRangeBlocks(f, st, offset.start \div 65536,
                                     offset.start \div 65536, offset.end \div 65536,
                                     offset.start % 65536, offset.end % 65536),
                     Tail(region))

\* Ok(buffer)
RegionBytes(st) == [res |-> "Ok", pos |-> st.pos, buf |-> st.buf, io |-> st.io]

\* Reader::read_bgzf_bytes_for_region with the source at p: [res, pos, buf, io],
\* built with overflow checks: the capacity estimate subtracts in u64 and
\* has no value for a range that ends before it starts
read_bgzf_bytes_for_region(f, p, region) ==
    IF \E i \in 1..Len(region) : region[i].end < region[i].start
    THEN [res |-> "Panic", pos |-> p, buf |-> <<>>, io |-> 0]
    ELSE RegionBytes(ReadRanges(f, [pos |-> p, cur |-> None, buf |-> <<>>, io |-> 0],
                                region))

\* (r.end - r.start) as usize for every range of the region
RangeSizes(region) == [i \in 1..Len(region) |-> region[i].end - region[i].start]

\* Reader::read_bgzf_bytes_for_region built without overflow checks: the
\* subtraction and the sum of the capacity estimate wrap modulo 2^64, and
\* Vec::with_capacity panics on a capacity above isize::MAX, which is what
\* the wrapped sum is when the true sum is negative
read_bgzf_bytes_for_region_wrapping(f, p, region) ==
    IF SeqSum(RangeSizes(region)) < 0
    THEN [res |-> "Panic", pos |-> p, buf |-> <<>>, io |-> 0]
    ELSE RegionBytes(ReadRanges(f, [pos |-> p, cur |-> None, buf |-> <<>>, io |-> 0],
                                region))

\* Reader::parse_records_from_bytes: [ok, out, store]; the blank record is
\* pushed before the parse that fills it
RECURSIVE ParseLoop(_, _, _)

\* one turn of the loop, p being the outcome of parse_record_into
ParseStep(acc, blank, p) ==
    IF ~p.ok
    THEN [ok |-> FALSE, out |-> Append(acc, blank.rec), store |-> p.store]
    ELSE ParseLoop(p.store, p.rest, Append(acc, p.rec))

\* one turn of the loop, blank being the record pushed
ParsePushed(acc, cursor, blank) ==
    ParseStep(acc, blank, parse_record_into(blank.store, cursor))

ParseLoop(store, cursor, acc) ==
    IF cursor = <<>> THEN [ok |-> TRUE, out |-> acc, store |-> store]
    ELSE ParsePushed(acc, cursor, blank_record(store))

parse_records_from_bytes(store, bytes) == ParseLoop(store, bytes, <<>>)

\* Vec::retain
RECURSIVE Retain(_, _, _, _)
Retain(recs, tid_id, start, end) ==
    IF recs = <<>> THEN <<>>
    ELSE IF /\ Head(recs).tid = tid_id
            /\ Head(recs).start < end
            /\ Head(recs).end > start
    THEN <<Head(recs)>> \o Retain(Tail(recs), tid_id, start, end)
    ELSE Retain(Tail(recs), tid_id, start, end)

\* what a region query hands back: the reader, the outcome, the caller's out,
\* and the bytes read (nread) and seeks and reads issued (io) on the source
RegionResult(r, status, err, o, nread, io) ==
    [r |-> r, status |-> status, err |-> err, out |-> o, nread |-> nread, io |-> io]

\* the bytes b parsed into out, p being the outcome of
\* parse_records_from_bytes
BytesParsed(r, b, p) ==
    RegionResult([r EXCEPT !.pos = b.pos, !.resolver = p.store],
                 IF p.ok THEN "parsed" ELSE "err",
                 IF p.ok THEN "" ELSE "BedMismatch",
                 p.out, Len(b.buf), b.io)

\* the bytes b read for the ranges: nothing read returns Ok(()) at once
BytesRead(r, o, b) ==
    IF b.res = "Panic" THEN RegionResult(r, "panic", "", o, 0, 0)
    ELSE IF b.buf = <<>> THEN RegionResult([r EXCEPT !.pos = b.pos], "ok", "", o, 0, b.io)
    ELSE BytesParsed(r, b, parse_records_from_bytes(r.resolver, b.buf))

\* the BGZF arm of read_lines_in_tid and read_lines_in_tid_region once the
\* reference was found: reads the ranges and parses them; the status is
\* "parsed" when parse_records_from_bytes returned Ok
ReadAndParse(f, r, ranges, o) ==
    BytesRead(r, o, read_bgzf_bytes_for_region(f, r.pos, ranges))

\* the end of read_lines_in_tid
TidParsed(rp) == IF rp.status = "parsed" THEN [rp EXCEPT !.status = "ok"] ELSE rp

\* read_lines_in_tid asking for the index before it looks at the container
read_lines_in_tid_index_first(f, r, ixo, offs, ranges, o) ==
    IF ixo = None THEN RegionResult(r, "err", "TabixNotOpen", o, 0, 0)
    ELSE IF f.kind = "Plain" THEN RegionResult(r, "err", "PlainBedRegion", o, 0, 0)
    ELSE IF offs.res = "Panic" THEN RegionResult(r, "panic", "", o, 0, 0)
    ELSE IF ~offs.found THEN RegionResult(r, "ok", "", <<>>, 0, 0)
    ELSE TidParsed(ReadAndParse(f, r, ranges, o))

\* Reader::read_lines_in_tid: [r, status, err, out, nread, io]; offs is the
\* value of offsets_for_tid and ranges the chunk list taken from it
read_lines_in_tid(f, r, ixo, offs, ranges, o) ==
    IF f.kind = "Plain" THEN RegionResult(r, "err", "PlainBedRegion", o, 0, 0)
    ELSE IF ixo = None THEN RegionResult(r, "err", "TabixNotOpen", o, 0, 0)
    ELSE IF offs.res = "Panic" THEN RegionResult(r, "panic", "", o, 0, 0)
    ELSE IF ~offs.found THEN RegionResult(r, "ok", "", <<>>, 0, 0)
    ELSE TidParsed(ReadAndParse(f, r, ranges, o))

\* the end of read_lines_in_tid_region: tid_id is what find returned
RegionRetained(rp, tid_id, start, end) ==
    IF tid_id = None THEN [rp EXCEPT !.status = "err", !.err = "BedFormat"]
    ELSE [rp EXCEPT !.status = "ok", !.out = Retain(rp.out, tid_id[1], start, end)]

\* read_lines_in_tid_region after the match on the reader
RegionParsed(rp, tid, start, end) ==
    IF rp.status # "parsed" THEN rp
    ELSE RegionRetained(rp, find(rp.r.resolver, tid), start, end)

\* read_lines_in_tid_region without the out.clear() of the branch taken when
\* the reference is absent from the index
read_lines_in_tid_region_keeping_out(f, r, ixo, offs, ranges, tid, start, end, o) ==
    IF f.kind = "Plain" THEN RegionResult(r, "err", "PlainBedRegion", o, 0, 0)
    ELSE IF ixo = None THEN RegionResult(r, "err", "TabixNotOpen", o, 0, 0)
    ELSE IF offs.res = "Panic" THEN RegionResult(r, "panic", "", o, 0, 0)
    ELSE IF ~offs.found THEN RegionResult(r, "ok", "", o, 0, 0)
    ELSE RegionParsed(ReadAndParse(f, r, ranges, o), tid, start, end)

\* read_lines_in_tid_region clearing out before it fails for want of an index
read_lines_in_tid_region_clearing_out(f, r, ixo, offs, ranges, tid, start, end, o) ==
    IF f.kind = "Plain" THEN RegionResult(r, "err", "PlainBedRegion", o, 0, 0)
    ELSE IF ixo = None THEN RegionResult(r, "err", "TabixNotOpen", <<>>, 0, 0)
    ELSE IF offs.res = "Panic" THEN RegionResult(r, "panic", "", o, 0, 0)
    ELSE IF ~offs.found THEN RegionResult(r, "ok", "", <<>>, 0, 0)
    ELSE RegionParsed(ReadAndParse(f, r, ranges, o), tid, start, end)

\* Reader::read_lines_in_tid_region: [r, status, err, out, nread, io]
read_lines_in_tid_region(f, r, ixo, offs, ranges, tid, start, end, o) ==
    IF f.kind = "Plain" THEN RegionResult(r, "err", "PlainBedRegion", o, 0, 0)
    ELSE IF ixo = None THEN RegionResult(r, "err", "TabixNotOpen", o, 0, 0)
    ELSE IF offs.res = "Panic" THEN RegionResult(r, "panic", "", o, 0, 0)
    ELSE IF ~offs.found THEN RegionResult(r, "ok", "", <<>>, 0, 0)
    ELSE RegionParsed(ReadAndParse(f, r, ranges, o), tid, start, end)

-----------------------------------------------------------------------------
(* Open: src/src/bed/reader.rs, src/src/bed/parser.rs                      *)

\* the number of white-space separated fields of a line
RECURSIVE FieldCount(_)
FieldCount(line) ==
    IF Drop(line, SpaceLen(line)) = <<>> THEN 0
    ELSE 1 + FieldCount(Drop(Drop(line, SpaceLen(line)),
                             WordLen(Drop(line, SpaceLen(line)))))

IsHeaderLine(line) == starts_with(line, "track") \/ starts_with(line, "browser")

\* the field count that names a sub-format, 0 for any other
KindOfCount(n) == IF n \in {3, 4, 5, 6, 12, 18} THEN n ELSE 0

\* BedFormat::try_from(&Vec<String>): the first line that is neither blank
\* nor a header fixes the sub-format by its field count; 0 when none does
BedFormatTryFrom(lines) ==
    LET data == {i \in 1..Len(lines) : ~IsBlank(lines[i]) /\ ~IsHeaderLine(lines[i])}
    IN  IF data = {} THEN 0 ELSE KindOfCount(FieldCount(lines[Min(data)]))

MaxProbeLines == 10

\* detect_format_from_reader over the text, from byte p, with n lines
\* already accumulated in acc: [ok, kind, pos]
RECURSIVE detect_format_from_reader(_, _, _, _)

\* the line l was pushed: kind is what BedFormat::try_from made of the lines
ProbeTried(text, l, acc, n, kind) ==
    IF kind # 0 THEN [ok |-> TRUE, kind |-> kind, pos |-> l.pos]
    ELSE detect_format_from_reader(text, l.pos, acc, n + 1)

\* one turn of the loop, l being the line read
ProbeLine(text, acc, n, l) ==
    IF n >= MaxProbeLines \/ l.line = <<>>
    THEN [ok |-> FALSE, kind |-> 0, pos |-> l.pos]
    ELSE ProbeTried(text, l, Append(acc, l.line), n,
                    BedFormatTryFrom(Append(acc, l.line)))

detect_format_from_reader(text, p, acc, n) ==
    ProbeLine(text, acc, n, PlainReadLine([blocks |-> <<text>>], p))

OpenFailed(res) == [res |-> res, pos |-> 0, format |-> 0, index |-> None]

\* the BGZF arm of read_kind: b is the first block, tbi the index read and
\* d the format detected on a copy of the block; the reader was sought
\* back to 0 after the block was read
ReadKindBgzf(f, b, tbi, d) ==
    IF b.res # "Some" THEN OpenFailed("Err")
    ELSE IF tbi.res = "Panic" THEN OpenFailed("Panic")
    ELSE IF ~d.ok THEN OpenFailed("Err")
    ELSE [res |-> "Ok", pos |-> 0, format |-> d.kind,
          index |-> IF f.index = None THEN None
                    ELSE Some([seqnames |-> tbi.seqnames,
                               ref_indices |-> tbi.ref_indices])]

\* the plain arm of read_kind: d is the format detected on the reader
\* itself, which stays where the probe left it
ReadKindPlain(d) ==
    IF ~d.ok THEN OpenFailed("Err")
    ELSE [res |-> "Ok", pos |-> d.pos, format |-> d.kind, index |-> None]

\* Reader::open_bed_reader / read_kind and the struct built by from_reader:
\* [res, pos, format, index]
open_bed_reader(f) ==
    IF f.kind = "BGZF"
    THEN ReadKindBgzf(f, read_bgzf_block(f, 0),
                      IF f.index = None
                      THEN [res |-> "Ok", seqnames |-> <<>>, ref_indices |-> <<>>]
                      ELSE read_tabix(f.index[1]),
                      detect_format_from_reader(read_bgzf_block(f, 0).block, 0, <<>>, 0))
    ELSE ReadKindPlain(detect_format_from_reader(PlainText(f), 0, <<>>, 0))

-----------------------------------------------------------------------------
(* The inputs the model opens                                              *)

MaxLines == 3

MaxRegionLines == 2

MaxChunks == 2

SmallBlock == 7

MidBlock == 11

DataLine(name, s, e) == <<name, "sp", s, "sp", e, "nl">>

TrackLine(x) == <<"track", "sp", x, "nl">>

BrowserLine(k, v) == <<"browser", "sp", k, "sp", v, "nl">>

BlankLine == <<"nl">>

SeqsUpTo(S, n) == UNION {[1..k -> S] : k \in 1..n}

\* the lines a streamed text is made of: one palette per text
Palettes ==
    { {BrowserLine("a", "1"), BrowserLine("b", "2"), DataLine("a", "1", "3")},
      {TrackLine("x"), TrackLine("y"), DataLine("a", "1", "3")},
      {BlankLine, DataLine("a", "1", "3"), DataLine("b", "2", "4")},
      {TrackLine("x"), BrowserLine("a", "1"), DataLine("b", "2", "4")} }

StreamTexts == {Flatten(ls) : ls \in UNION {SeqsUpTo(P, MaxLines) : P \in Palettes}}

RegionLines == {DataLine("a", "1", "3"), DataLine("b", "2", "4")}

RegionTexts == {Flatten(ls) : ls \in SeqsUpTo(RegionLines, MaxRegionLines)}

\* the text cut into blocks of n bytes
RECURSIVE Split(_, _)
Split(text, n) ==
    IF Len(text) <= n THEN <<text>>
    ELSE <<Take(text, n)>> \o Split(Drop(text, n), n)

Layouts(text) == {Split(text, n) : n \in {SmallBlock, MidBlock, Len(text)}}

RegionLayouts(text) == {Split(text, n) : n \in {SmallBlock, Len(text)}}

\* the decompressed bytes that lie before compressed offset p
BytesBefore(f, p) ==
    SeqSum([i \in 1..Len(f.blocks) |->
              IF (i - 1) * BlockCSize < p THEN Len(f.blocks[i]) ELSE 0])

\* the virtual offset of the k-th byte boundary of the decompressed text
VOffsetAt(blocks, k) ==
    LET f == [blocks |-> blocks]
        inside == {i \in 1..Len(blocks) :
                     /\ BytesBefore(f, (i - 1) * BlockCSize) <= k
                     /\ k < BytesBefore(f, i * BlockCSize)}
    IN  IF inside = {} THEN VOffset(EofOffset(f), 0)
        ELSE LET i == Min(inside)
             IN  VOffset((i - 1) * BlockCSize, k - BytesBefore(f, (i - 1) * BlockCSize))

\* the byte boundaries at which a line of the text starts, and its end
LineStarts(text) ==
    {0} \cup {i \in 1..Len(text) : text[i] = "nl"}

\* the chunks an index may hold: from a line start to a later one, and
\* the empty chunk at the start
Chunks(blocks) ==
    LET text == Flatten(blocks)
    IN  {[start |-> VOffsetAt(blocks, i), end |-> VOffsetAt(blocks, j)] :
            <<i, j>> \in {x \in LineStarts(text) \X LineStarts(text) :
                            x[1] < x[2] \/ (x[1] = 0 /\ x[2] = 0)}}

\* the bins of one Reference
BinMaps(blocks) ==
    LET cs == Chunks(blocks)
    IN  {[b \in {} |-> <<>>]}
        \cup {[b \in {4681} |-> l] : l \in SeqsUpTo(cs, MaxChunks)}
        \cup {[b \in {585, 4681} |-> <<c>>] : c \in cs}
        \cup {[b \in {4682} |-> <<c>>] : c \in cs}

IndexFiles(blocks) ==
    {[names |-> ns, refs |-> [i \in 1..Len(ns) |-> [bins |-> m]]] :
        ns \in {<<<<"a">>>>}, m \in BinMaps(blocks)}

StreamFiles ==
    {[kind |-> "Plain", blocks |-> <<t>>, index |-> None] : t \in StreamTexts}
    \cup UNION {{[kind |-> "BGZF", blocks |-> bl, index |-> None] : bl \in Layouts(t)} :
                  t \in StreamTexts}

RegionFiles ==
    UNION {UNION {{[kind |-> "BGZF", blocks |-> bl, index |-> Some(ix)] :
                      ix \in IndexFiles(bl)} : bl \in RegionLayouts(t)} : t \in RegionTexts}

QueryNames == {<<"a">>, <<"b">>}

QueryRegions == {<<0, 2>>, <<2, 6>>}

-----------------------------------------------------------------------------
(* The state machine                                                       *)

Self == [pos |-> pos, bgz_buffer |-> bgz_buffer, track_line |-> track_line,
         last_browser |-> last_browser, reset_browser |-> reset_browser,
         resolver |-> resolver]

SetSelf(r) ==
    /\ pos' = r.pos
    /\ bgz_buffer' = r.bgz_buffer
    /\ track_line' = r.track_line
    /\ last_browser' = r.last_browser
    /\ reset_browser' = r.reset_browser
    /\ resolver' = r.resolver

NoCall ==
    [op |-> "open", status |-> "ok", err |-> "", track |-> None, rec |-> None,
     tid |-> <<>>, start |-> 0, end |-> 0, reused |-> FALSE, nread |-> 0, io |-> 0]

\* the number of lines of the source
NumLines(f) == Cardinality(LineStarts(Flatten(f.blocks)))

\* hist.ops: the kinds of call made since open; hist.nret: the records the
\* streaming calls returned, while no other call was made; hist.rew: the
\* read_line calls made since seek_to_start, while no other call was made
\* (-1 otherwise)
Note(op, status) ==
    LET kind == IF op \in {"read_line", "read_line_with_meta"} THEN op ELSE "random"
        ops  == hist.ops \cup {kind}
    IN  [ops  |-> ops,
         nret |-> IF "random" \in ops THEN -1
                  ELSE IF status = "some" THEN hist.nret + 1 ELSE hist.nret,
         rew  |-> IF op = "seek_to_start" THEN 0
                  ELSE IF op = "read_line" /\ hist.rew >= 0
                  THEN (IF hist.rew <= NumLines(file) THEN hist.rew + 1 ELSE hist.rew)
                  ELSE -1]

\* the Reader that from_reader builds from what open_bed_reader returned
Opened(o) ==
    /\ o.res = "Ok"
    /\ pos = o.pos
    /\ format = o.format
    /\ index = o.index
    /\ bgz_buffer = <<>>
    /\ track_line = None
    /\ last_browser = None
    /\ reset_browser = TRUE
    /\ resolver = <<>>
    /\ out = <<>>
    /\ browser_meta = None
    /\ last = NoCall
    /\ hist = [ops |-> {}, nret |-> 0, rew |-> -1]
    /\ given = {}
    /\ peers = <<>>

InitWith(files) ==
    /\ file \in files
    /\ Opened(open_bed_reader(file))

Init == InitWith(StreamFiles)

InitRegion == InitWith(RegionFiles)

Alive == last.status # "panic"

\* what the call op leaves behind, x being what it returned
Streamed(op, x) ==
    /\ SetSelf(x.r)
    /\ last' = [NoCall EXCEPT !.op = op, !.status = x.ret.status, !.err = x.ret.err,
                              !.track = x.ret.track, !.rec = x.ret.rec]
    /\ hist' = Note(op, x.ret.status)

ReadLine ==
    /\ Alive
    /\ Streamed("read_line", read_line(file, Self))
    /\ UNCHANGED <<file, format, index, out, browser_meta, given, peers>>

\* x is what read_line_with_meta returned
StreamedWithMeta(x) ==
    /\ Streamed("read_line_with_meta", x)
    /\ browser_meta' = x.meta

ReadLineWithMeta ==
    /\ Alive
    /\ StreamedWithMeta(read_line_with_meta(file, Self, browser_meta))
    /\ UNCHANGED <<file, format, index, out, given, peers>>

SeekToStart ==
    /\ Alive
    /\ SetSelf(seek_to_start(Self))
    /\ last' = [NoCall EXCEPT !.op = "seek_to_start"]
    /\ hist' = Note("seek_to_start", "ok")
    /\ UNCHANGED <<file, format, index, out, browser_meta, given, peers>>

NoOffsets == [res |-> "Ok", found |-> FALSE, lists |-> {<<>>}]

\* what the region query op for tid and [start, end) leaves behind, x being
\* what it returned
Queried(op, tid, start, end, x) ==
    /\ SetSelf(x.r)
    /\ out' = x.out
    /\ last' = [NoCall EXCEPT !.op = op, !.status = x.status, !.err = x.err,
                              !.tid = tid, !.start = start, !.end = end,
                              !.reused = (out # <<>>),
                              !.nread = x.nread, !.io = x.io]
    /\ hist' = Note(op, x.status)

\* read_lines_in_tid(tid, out), offs being what the index answered
QueryTid(tid, offs) ==
    \E ranges \in offs.lists :
        Queried("read_lines_in_tid", tid, 0, 0,
                read_lines_in_tid(file, Self, index, offs, ranges, out))

ReadLinesInTid ==
    /\ Alive
    /\ \E tid \in QueryNames :
         QueryTid(tid, IF index = None THEN NoOffsets
                       ELSE offsets_for_tid(index[1], tid))
    /\ UNCHANGED <<file, format, index, browser_meta, given, peers>>

\* read_lines_in_tid_region(tid, start, end, out), offs being what the index
\* answered
QueryTidRegion(tid, start, end, offs) ==
    \E ranges \in offs.lists :
        Queried("read_lines_in_tid_region", tid, start, end,
                read_lines_in_tid_region(file, Self, index, offs, ranges,
                                         tid, start, end, out))

ReadLinesInTidRegion ==
    /\ Alive
    /\ \E tid \in QueryNames, q \in QueryRegions :
         QueryTidRegion(tid, q[1], q[2],
                        IF index = None THEN NoOffsets
                        ELSE offsets_for_tid_region(index[1], tid, q[1], q[2]))
    /\ UNCHANGED <<file, format, index, browser_meta, given, peers>>

Next ==
    \/ ReadLine
    \/ ReadLineWithMeta
    \/ SeekToStart
    \/ ReadLinesInTid
    \/ ReadLinesInTidRegion

Spec == Init /\ [][Next]_vars

\* the calls made on an indexed BGZF file
NextRegion ==
    \/ ReadLine
    \/ ReadLinesInTid
    \/ ReadLinesInTidRegion

SpecRegion == InitRegion /\ [][NextRegion]_vars

-----------------------------------------------------------------------------
(* What the input says: the lines of the text, read off the bytes          *)

Text == Flatten(file.blocks)

\* the bytes of the text a streaming reader has handed out so far
Consumed ==
    IF file.kind = "Plain" THEN pos
    ELSE BytesBefore(file, pos) - Len(bgz_buffer)

RECURSIVE LinesOf(_)
LinesOf(t) ==
    IF t = <<>> THEN <<>>
    ELSE LET nls == {i \in 1..Len(t) : t[i] = "nl"}
             n   == IF nls = {} THEN Len(t) ELSE Min(nls)
         IN  <<Take(t, n)>> \o LinesOf(Drop(t, n))

IsDataLine(l) == ~IsBlank(l) /\ ~IsHeaderLine(l)

\* the data lines among the lines ls, in order
RECURSIVE DataLinesOf(_)
DataLinesOf(ls) ==
    IF ls = <<>> THEN <<>>
    ELSE IF IsDataLine(Head(ls)) THEN <<Head(ls)>> \o DataLinesOf(Tail(ls))
    ELSE DataLinesOf(Tail(ls))

\* the (name, start, end) a three-column data line spells
LineRecord(l) ==
    LET n  == WordLen(l)
        r1 == Drop(l, n + 1)
        s  == DigitLen(r1)
        r2 == Drop(r1, s + 1)
        e  == DigitLen(r2)
    IN  [name  |-> Take(l, n),
         start |-> DecimalValue(Take(r1, s), 0),
         end   |-> DecimalValue(Take(r2, e), 0)]

\* a returned record with its tid resolved to the name
Resolved(store, rec) ==
    [name |-> IF resolve(store, rec.tid) = None THEN <<>> ELSE resolve(store, rec.tid)[1],
     start |-> rec.start, end |-> rec.end]

\* the browser block in force after the lines ls: a browser line opens a
\* block when the last one was closed by a data line, and extends it otherwise
RECURSIVE BrowserBlock(_, _, _)
BrowserBlock(ls, blk, closed) ==
    IF ls = <<>> THEN blk
    ELSE LET l == Head(ls)
         IN  IF starts_with(l, "browser")
             THEN LET a == BrowserPairs(Drop(l, 2), NoAttrs)
                  IN  BrowserBlock(Tail(ls),
                                   IF closed \/ blk = None THEN Some([attrs |-> a])
                                   ELSE Some([attrs |-> AttrsExtend(blk[1].attrs, a)]),
                                   FALSE)
             ELSE BrowserBlock(Tail(ls), blk, closed \/ IsDataLine(l))

\* the track of the last track line among the lines ls
RECURSIVE LastTrack(_)
LastTrack(ls) ==
    IF ls = <<>> THEN None
    ELSE LET l == ls[Len(ls)]
         IN  IF starts_with(l, "track")
             THEN Some([name |-> Some(SubSeq(l, 3, Len(l) - 1))])
             ELSE LastTrack(Take(ls, Len(ls) - 1))

\* the lines handed out so far
LinesRead == LinesOf(Take(Text, Consumed))

StreamingOps == {"read_line", "read_line_with_meta"}

RegionOps == {"read_lines_in_tid", "read_lines_in_tid_region"}

-----------------------------------------------------------------------------
(* Streaming claims, under Spec                                            *)

\* C1: when the input is consumed only through read_line_with_meta, the
\* browser block handed out with a record is the one built from the most
\* recent run of browser lines not separated by a data line: runs merge, a
\* data line closes the block, the next browser line replaces it.
C1_BrowserBlockOfLatestRun ==
    (/\ hist.ops = {"read_line_with_meta"}
     /\ last.op = "read_line_with_meta"
     /\ last.status = "some")
    => browser_meta = BrowserBlock(LinesRead, None, TRUE)

\* C2: under any interleaving of read_line and read_line_with_meta, the track
\* returned with a record is the one of the last track line at or before the
\* record in the input, None when there is none.
C2_TrackOfLastTrackLine ==
    (/\ hist.ops \subseteq StreamingOps
     /\ last.op \in StreamingOps
     /\ last.status = "some")
    => last.track = LastTrack(LinesRead)

\* C3: successive read_line calls return the data lines of the input in file
\* order, each exactly once, and None once the input is exhausted, for plain
\* and for BGZF containers.
C3_DataLinesInFileOrder ==
    (hist.ops = {"read_line"} /\ last.op = "read_line")
    => LET data == DataLinesOf(LinesOf(Text))
       IN  /\ last.status \in {"some", "none"}
           /\ last.status = "some" =>
                /\ hist.nret <= Len(data)
                /\ Resolved(resolver, last.rec[1]) = LineRecord(data[hist.nret])
           /\ last.status = "none" => hist.nret = Len(data)

\* C4: once open has returned, the reader stands at the start of the stream,
\* for plain and for BGZF inputs: no line of the input was consumed.
C4_OpenLeavesReaderAtStart ==
    last.op = "open" => (pos = 0 /\ Consumed = 0)

\* the outcome of the k-th read_line of the reader r on f: [r, ret]
RECURSIVE NthReadLine(_, _, _)
NthReadLine(f, r, k) ==
    LET x == read_line(f, r)
    IN  IF k <= 1 THEN x ELSE NthReadLine(f, x.r, k - 1)

\* the reader a fresh open of f builds
FreshReader(f) ==
    [pos |-> open_bed_reader(f).pos, bgz_buffer |-> <<>>, track_line |-> None,
     last_browser |-> None, reset_browser |-> TRUE, resolver |-> <<>>]

\* what a caller sees of a read_line outcome
Seen(store, ret) ==
    [status |-> ret.status, track |-> ret.track,
     rec |-> IF ret.rec = None THEN None ELSE Some(Resolved(store, ret.rec[1]))]

\* C5: after any streaming calls, seek_to_start followed by repeated read_line
\* yields the same (track, record) pairs as a freshly opened reader on the
\* same input; stated for the BGZF container, whose fresh reader stands at
\* the start of the stream.
C5_RewindLikeFreshReader ==
    (file.kind = "BGZF" /\ hist.rew >= 1 /\ last.op = "read_line")
    => LET fresh == NthReadLine(file, FreshReader(file), hist.rew)
       IN  Seen(resolver, last) = Seen(fresh.r.resolver, fresh.ret)

-----------------------------------------------------------------------------
(* Random-access claims, under SpecRegion                                  *)

\* C6: a random-access call discards the buffered BGZF line residue before
\* it seeks: after such a call bgz_buffer is empty.
C6_RegionCallDiscardsResidue ==
    (last.op \in RegionOps /\ last.status = "ok" /\ last.io > 0)
    => bgz_buffer = <<>>

\* C7: after a successful read_lines_in_tid_region(ref, s, e, out) every
\* record in out has the tid of ref, start < e and end > s, whatever out held
\* before and whatever the index holds.
C7_RegionRecordsOverlap ==
    (last.op = "read_lines_in_tid_region" /\ last.status = "ok")
    => \A k \in 1..Len(out) :
          /\ find(resolver, last.tid) = Some(out[k].tid)
          /\ out[k].start < last.end
          /\ out[k].end > last.start

\* the byte boundaries [lo, hi] of the lines of the text t, from byte at
RECURSIVE LineBounds(_, _)
LineBounds(ls, at) ==
    IF ls = <<>> THEN <<>>
    ELSE <<[lo |-> at, hi |-> at + Len(Head(ls))]>>
         \o LineBounds(Tail(ls), at + Len(Head(ls)))

\* the candidate chunks of the last region query
CandidateChunks ==
    LET offs == offsets_for_tid_region(index[1], last.tid, last.start, last.end)
    IN  UNION {{l[i] : i \in 1..Len(l)} : l \in offs.lists}

\* the lines of the text that the last region query has to return: of the
\* reference, overlapping the region, and inside a candidate chunk
WantedLines ==
    LET ls == LinesOf(Text)
        bs == LineBounds(ls, 0)
    IN  {i \in 1..Len(ls) :
           /\ IsDataLine(ls[i])
           /\ LineRecord(ls[i]).name = last.tid
           /\ LineRecord(ls[i]).start < last.end
           /\ LineRecord(ls[i]).end > last.start
           /\ \E c \in CandidateChunks :
                 /\ c.start <= VOffsetAt(file.blocks, bs[i].lo)
                 /\ VOffsetAt(file.blocks, bs[i].hi) <= c.end}

\* C8: for read_lines_in_tid_region(ref, s, e, out) over any list of
\* candidate chunks, every record of ref with start < e and end > s that lies
\* inside one of the candidate chunks is present in out.
C8_NoOverlappingRecordOmitted ==
    (last.op = "read_lines_in_tid_region" /\ last.status = "ok" /\ index # None)
    => LET ls == LinesOf(Text)
       IN  \A i \in WantedLines :
              Cardinality({k \in 1..Len(out) :
                             Resolved(resolver, out[k]) = LineRecord(ls[i])})
              >= Cardinality({j \in WantedLines : ls[j] = ls[i]})

\* C9: read_lines_in_tid and read_lines_in_tid_region clear out first: on a
\* successful return out holds only records read by this call, so none when
\* the call read no bytes.
C9_OutHoldsOnlyThisCall ==
    (last.op \in RegionOps /\ last.status = "ok" /\ last.nread = 0)
    => out = <<>>

\* the outcomes of making the last random-access call once more
Repeated ==
    IF last.op = "read_lines_in_tid"
    THEN LET offs == offsets_for_tid(index[1], last.tid)
         IN  {read_lines_in_tid(file, Self, index, offs, rg, out) : rg \in offs.lists}
    ELSE LET offs == offsets_for_tid_region(index[1], last.tid, last.start, last.end)
         IN  {read_lines_in_tid_region(file, Self, index, offs, rg,
                                       last.tid, last.start, last.end, out) :
                rg \in offs.lists}

\* the last call asked for a reference the loaded index does not name
AbsentQuery ==
    /\ last.op \in RegionOps
    /\ index # None
    /\ SeqnamePosition(index[1], last.tid) = 0

\* C10: a query for a reference that is not among the names of the loaded
\* index succeeds with out empty, whatever out held, without a seek or a read
\* on the data source, and making it again gives the same.
C10_AbsentReferenceClearsOut ==
    AbsentQuery
    => /\ last.status = "ok"
       /\ out = <<>>
       /\ last.io = 0
       /\ last.nread = 0
       /\ \A again \in Repeated :
             /\ again.status = "ok"
             /\ again.out = <<>>
             /\ again.io = 0
             /\ again.r = Self

\* an absent reference was asked for with records of an earlier call in out
C10_Witness == AbsentQuery /\ last.reused /\ last.op = "read_lines_in_tid_region"

-----------------------------------------------------------------------------
(* Region queries on a reader that holds no index, under SpecUnindexed     *)

\* what the caller's Vec may hold when it is handed to a region query
HeldOuts == {<<>>, <<[tid |-> 1, start |-> 1, end |-> 3]>>}

\* plain files, opened with and without an index argument, and BGZF files
\* opened without one
UnindexedFiles ==
    UNION {{[kind |-> "Plain", blocks |-> <<t>>, index |-> ixo] :
              ixo \in {None} \cup {Some([names |-> <<<<"a">>>>,
                                          refs  |-> <<[bins |-> [b \in {4681} |-> <<c>>]]>>]) :
                                     c \in Chunks(<<t>>)}} :
           t \in RegionTexts}
    \cup UNION {{[kind |-> "BGZF", blocks |-> bl, index |-> None] :
                   bl \in RegionLayouts(t)} : t \in RegionTexts}

\* the Reader that from_reader builds, the caller holding held
OpenedHolding(o, held) ==
    /\ o.res = "Ok"
    /\ pos = o.pos
    /\ format = o.format
    /\ index = o.index
    /\ bgz_buffer = <<>>
    /\ track_line = None
    /\ last_browser = None
    /\ reset_browser = TRUE
    /\ resolver = <<>>
    /\ out = held
    /\ browser_meta = None
    /\ last = NoCall
    /\ hist = [ops |-> {}, nret |-> 0, rew |-> -1]
    /\ given = {}
    /\ peers = <<>>

InitUnindexed ==
    /\ file \in UnindexedFiles
    /\ \E held \in HeldOuts : OpenedHolding(open_bed_reader(file), held)

SpecUnindexed == InitUnindexed /\ [][Next]_vars

\* C11: a region query on a reader whose container is plain text fails with
\* PlainBedRegion, whatever index was given at open, and leaves out and the
\* position of the reader as they were
C11_PlainRejectsRegionQueries ==
    [][(file.kind = "Plain" /\ last'.op \in RegionOps)
         => /\ last'.status = "err"
            /\ last'.err = "PlainBedRegion"
            /\ out' = out
            /\ pos' = pos]_vars

C11_Witness ==
    /\ file.kind = "Plain"
    /\ file.index # None
    /\ last.op \in RegionOps
    /\ last.err = "PlainBedRegion"
    /\ out # <<>>
    /\ hist.ops = {"read_line", "random"}

\* C12: a region query on a BGZF reader opened without an index fails with
\* TabixNotOpen, issues no seek and no read on the source, and leaves out as
\* it was
C12_NoIndexFailsWithoutIo ==
    [][(file.kind = "BGZF" /\ index = None /\ last'.op \in RegionOps)
         => /\ last'.status = "err"
            /\ last'.err = "TabixNotOpen"
            /\ last'.io = 0
            /\ last'.nread = 0
            /\ pos' = pos
            /\ bgz_buffer' = bgz_buffer
            /\ out' = out]_vars

C12_Witness ==
    /\ file.kind = "BGZF"
    /\ index = None
    /\ last.op = "read_lines_in_tid_region"
    /\ last.err = "TabixNotOpen"
    /\ out # <<>>
    /\ bgz_buffer # <<>>

-----------------------------------------------------------------------------
(* The order of the reference names, under SpecIndexOrder                  *)

\* the bins of one Reference of a two-reference index
OrderedBinMaps(blocks) ==
    {[b \in {} |-> <<>>]} \cup {[b \in {4681} |-> <<c>>] : c \in Chunks(blocks)}

\* index files that name two references, in either order
OrderedIndexFiles(blocks) ==
    {[names |-> ns, refs |-> <<[bins |-> m1], [bins |-> m2]>>] :
        ns \in {<<<<"a">>, <<"b">>>>, <<<<"b">>, <<"a">>>>},
        m1 \in OrderedBinMaps(blocks), m2 \in OrderedBinMaps(blocks)}

OrderedFiles ==
    UNION {{[kind |-> "BGZF", blocks |-> <<t>>, index |-> Some(ix)] :
              ix \in OrderedIndexFiles(<<t>>)} : t \in RegionTexts}

InitIndexOrder == InitWith(OrderedFiles)

SpecIndexOrder == InitIndexOrder /\ [][NextRegion]_vars

\* the names of the name block of the index file, in file order
RECURSIVE NamesInFileOrder(_)
NamesInFileOrder(names) ==
    IF names = <<>> THEN <<>>
    ELSE (IF Head(names) = <<>> THEN <<>> ELSE <<Head(names)>>)
         \o NamesInFileOrder(Tail(names))

\* the place of tid in the file order, 0 when it is not named
FilePosition(names, tid) ==
    LET hits == {i \in 1..Len(names) : names[i] = tid}
    IN  IF hits = {} THEN 0 ELSE Min(hits)

\* the Reference that the file order gives to tid
ReferenceInFileOrder(ixfile, tid) ==
    ixfile.refs[FilePosition(NamesInFileOrder(ixfile.names), tid)]

\* C13: the loaded index keeps the reference names in the order of the name
\* block of the index file, and a query for a name reads the chunks of the
\* Reference that stands at the place of the name in that order
C13_ReferenceByFileOrder ==
    index # None =>
        /\ index[1].seqnames = NamesInFileOrder(file.index[1].names)
        /\ \A tid \in QueryNames, q \in QueryRegions :
              FilePosition(NamesInFileOrder(file.index[1].names), tid) # 0 =>
                 offsets_for_tid_region(index[1], tid, q[1], q[2]).lists =
                    {ChunksOfBins(ReferenceInFileOrder(file.index[1], tid).bins,
                                  region_bins(q[1], q[2]))}

-----------------------------------------------------------------------------
(* region_bins, under SpecBins                                             *)

\* the positions handed to region_bins: around the edges of the bins of
\* each level, around 2^29, and the largest the model's integers hold
BinPositions ==
    {0, 1, 16383, 16384, 16385, 131072, 1048576, 8388608, 67108864,
     536870911, 536870912, 536870913, 2147483647}

BinsFile ==
    [kind |-> "BGZF", blocks |-> <<DataLine("a", "1", "3")>>,
     index |-> Some([names |-> <<<<"a">>>>, refs |-> <<[bins |-> [b \in {} |-> <<>>]]>>])]

InitBins == InitWith({BinsFile})

\* the call region_bins(start, end) and the bins it returned
CalledRegionBins(start, end, bins) ==
    [op |-> "region_bins", status |-> "ok", err |-> "", track |-> None, rec |-> None,
     tid |-> <<>>, start |-> start, end |-> end, reused |-> FALSE, nread |-> 0,
     io |-> 0, bins |-> bins]

RegionBins ==
    /\ \E start \in BinPositions, end \in BinPositions :
         last' = CalledRegionBins(start, end, region_bins(start, end))
    /\ UNCHANGED <<file, pos, format, index, bgz_buffer, track_line, last_browser,
                   reset_browser, resolver, out, browser_meta, hist, given, peers>>

NextBins == RegionBins

SpecBins == InitBins /\ [][NextBins]_vars

\* the last position of the region [start, end), held below 2^29
LastPosition(end) ==
    IF end = 0 THEN 0 ELSE IF end - 1 < 2^29 - 1 THEN end - 1 ELSE 2^29 - 1

\* the bins of the five levels between the positions s and e
LevelBins(s, e) ==
    {1 + k : k \in (s \div 2^26)..(e \div 2^26)}
    \cup {9 + k : k \in (s \div 2^23)..(e \div 2^23)}
    \cup {73 + k : k \in (s \div 2^20)..(e \div 2^20)}
    \cup {585 + k : k \in (s \div 2^17)..(e \div 2^17)}
    \cup {4681 + k : k \in (s \div 2^14)..(e \div 2^14)}

\* C14: region_bins returns no bin when start >= 2^29; otherwise bin 0 and,
\* for each of the five levels, every bin from that of start to that of
\* the last position min(end - 1, 2^29 - 1), each bin once
C14_RegionBinsAreTheLevelBins ==
    last.op = "region_bins" =>
        IF last.start >= 2^29 THEN last.bins = <<>>
        ELSE /\ {last.bins[i] : i \in 1..Len(last.bins)}
                   = {0} \cup LevelBins(last.start, LastPosition(last.end))
             /\ Cardinality({last.bins[i] : i \in 1..Len(last.bins)}) = Len(last.bins)

C14_Witness ==
    /\ last.op = "region_bins"
    /\ last.start = 16384
    /\ last.end = 536870913
    /\ Len(last.bins) > 6

-----------------------------------------------------------------------------
(* The symbol store on its own, under SpecStore                            *)

\* the names parse_string hands to the store: free of white space, in
\* either case
StoreNames == {<<"a">>, <<"b">>, <<"A">>, <<"B">>, <<"a", "b">>}

InitStore == InitWith({BinsFile})

\* the call op(name) on the store and the id it returned
CalledStore(op, name, id) ==
    [op |-> op, status |-> "ok", err |-> "", track |-> None, rec |-> None,
     tid |-> <<>>, start |-> 0, end |-> 0, reused |-> FALSE, nread |-> 0,
     io |-> 0, name |-> name, id |-> id]

\* to_symbol_id(name) returned x
Interned(name, x) ==
    /\ resolver' = x.store
    /\ last' = CalledStore("to_symbol_id", name, x.id)
    /\ given' = given \cup {[name |-> name, id |-> x.id, str |-> resolve(x.store, x.id)]}

\* parse_bed3_record interning the name of a record
ToSymbolId ==
    /\ \E name \in StoreNames : Interned(name, to_symbol_id(resolver, name))
    /\ UNCHANGED <<file, pos, format, index, bgz_buffer, track_line, last_browser,
                   reset_browser, out, browser_meta, hist, peers>>

\* dummy_tid() returned x
DummyInterned(x) ==
    /\ resolver' = x.store
    /\ last' = CalledStore("dummy_tid", DUMMY_TID, x.id)

\* blank_record interning the dummy name
DummyTid ==
    /\ DummyInterned(dummy_tid(resolver))
    /\ UNCHANGED <<file, pos, format, index, bgz_buffer, track_line, last_browser,
                   reset_browser, out, browser_meta, hist, given, peers>>

NextStore ==
    \/ ToSymbolId
    \/ DummyTid

SpecStore == InitStore /\ [][NextStore]_vars

\* C15: the id returned by interning a name resolves to that name, unchanged,
\* upper-case letters included
C15_ResolveReturnsTheName ==
    last.op = "to_symbol_id" => resolve(resolver, last.id) = Some(last.name)

\* C16: an id handed out keeps resolving to the string it resolved to, a name
\* gets the same id on every call, and two different names never get the
\* same id
C16_StoreInsertionOnlyInjective ==
    /\ \A g \in given : resolve(resolver, g.id) = g.str
    /\ \A g \in given, h \in given :
          /\ g.name = h.name => g.id = h.id
          /\ g.name # h.name => g.id # h.id

-----------------------------------------------------------------------------
(* Readers that share one store, under SpecShared                          *)
(* peers[i] is [file, r, line]: the source of reader i, the fields of the  *)
(* Reader, and the data line for which blank_record has run and            *)
(* parse_record_into has not.  resolver is the one TidStore behind the     *)
(* Mutex; a reader holds the lock for one to_symbol_id at a time.          *)

SharedLines == {DataLine("a", "1", "3"), DataLine("A", "1", "3"), DataLine("b", "2", "4")}

SharedFiles ==
    {[kind |-> "BGZF", blocks |-> <<Flatten(ls)>>, index |-> None] :
        ls \in SeqsUpTo(SharedLines, MaxRegionLines)}

\* the Reader that from_reader_with_resolver builds on f
PeerReader(f, o) ==
    [file |-> f,
     r    |-> [pos |-> o.pos, bgz_buffer |-> <<>>, track_line |-> None,
               last_browser |-> None, reset_browser |-> TRUE, resolver |-> <<>>],
     line |-> None]

\* the main reader opened, ps being the readers that share the store
OpenedAmong(o, ps) ==
    /\ o.res = "Ok"
    /\ pos = o.pos
    /\ format = o.format
    /\ index = o.index
    /\ bgz_buffer = <<>>
    /\ track_line = None
    /\ last_browser = None
    /\ reset_browser = TRUE
    /\ resolver = <<>>
    /\ out = <<>>
    /\ browser_meta = None
    /\ last = NoCall
    /\ hist = [ops |-> {}, nret |-> 0, rew |-> -1]
    /\ given = {}
    /\ peers = ps

InitShared ==
    /\ file = BinsFile
    /\ \E f1 \in SharedFiles, f2 \in SharedFiles :
         OpenedAmong(open_bed_reader(file),
                     <<PeerReader(f1, open_bed_reader(f1)),
                       PeerReader(f2, open_bed_reader(f2))>>)

\* the fields of a reader without the store, which is shared
Private(r) == [r EXCEPT !.resolver = <<>>]

\* one turn of the loop of read_line in reader i, up to blank_record: l is
\* what read_line_io returned and blank the record blank_record made
PeerLineRead(i, l, blank) ==
    IF l.res # "Some"
    THEN /\ peers' = [peers EXCEPT ![i].r = Private(l.r)]
         /\ UNCHANGED resolver
    ELSE IF starts_with(l.line, "track")
    THEN /\ peers' = [peers EXCEPT ![i].r =
                         IF parse_track_line(l.line).ok
                         THEN [Private(l.r) EXCEPT
                                 !.track_line = Some(parse_track_line(l.line).track)]
                         ELSE Private(l.r)]
         /\ UNCHANGED resolver
    ELSE IF starts_with(l.line, "browser")
    THEN /\ peers' = [peers EXCEPT ![i].r = Private(l.r)]
         /\ UNCHANGED resolver
    ELSE /\ peers' = [peers EXCEPT ![i].r = Private(l.r), ![i].line = Some(l.line)]
         /\ resolver' = blank.store

PeerBlankRecord ==
    /\ \E i \in 1..Len(peers) :
         /\ peers[i].line = None
         /\ PeerLineRead(i, read_line_io(peers[i].file, peers[i].r),
                         blank_record(resolver))
    /\ UNCHANGED <<file, pos, format, index, bgz_buffer, track_line, last_browser,
                   reset_browser, out, browser_meta, last, hist, given>>

\* parse_record_into in reader i returned p for the line
PeerParsed(i, line, p) ==
    /\ resolver' = p.store
    /\ peers' = [peers EXCEPT ![i].line = None]
    /\ given' = IF ~p.ok THEN given
                ELSE given \cup {[name |-> Take(line, WordLen(line)), id |-> p.rec.tid,
                                  str |-> resolve(p.store, p.rec.tid), by |-> i]}

PeerParseRecord ==
    /\ \E i \in 1..Len(peers) :
         /\ peers[i].line # None
         /\ PeerParsed(i, peers[i].line[1],
                       parse_record_into(resolver, peers[i].line[1]))
    /\ UNCHANGED <<file, pos, format, index, bgz_buffer, track_line, last_browser,
                   reset_browser, out, browser_meta, last, hist>>

NextShared ==
    \/ PeerBlankRecord
    \/ PeerParseRecord

SpecShared == InitShared /\ [][NextShared]_vars

\* C17: when readers share the store, records of different readers carry
\* equal ids for the same reference name and different ids for different
\* names, and an id one reader obtained still resolves to the same string
\* after the interning of the other
C17_SharedStoreOneIdPerName ==
    /\ \A g \in given, h \in given :
          g.by # h.by => /\ g.name = h.name => g.id = h.id
                         /\ g.name # h.name => g.id # h.id
    /\ \A g \in given : resolve(resolver, g.id) = g.str

-----------------------------------------------------------------------------
(* Format detection at open, under SpecProbe                               *)

\* a line of two fields, which names no sub-format
ShortLine == <<"a", "sp", "1", "nl">>

\* what may stand before the first data line: up to one line more than the
\* probe reads, all blank, all track, all browser, or blank and track in turn
ProbePrefixes ==
    UNION {{[i \in 1..k |-> BlankLine],
            [i \in 1..k |-> TrackLine("x")],
            [i \in 1..k |-> BrowserLine("a", "1")],
            [i \in 1..k |-> IF i % 2 = 1 THEN BlankLine ELSE TrackLine("x")]} :
           k \in 0..(MaxProbeLines + 1)}

\* the data lines that follow: none, lines of three fields, a line of two
ProbeTails ==
    {<<>>, <<DataLine("a", "1", "3")>>, <<DataLine("a", "1", "3"), DataLine("b", "2", "4")>>,
     <<ShortLine>>}

ProbeTexts == {Flatten(p \o t) : p \in ProbePrefixes, t \in ProbeTails} \ {<<>>}

ProbeFiles ==
    {[kind |-> k, blocks |-> <<t>>, index |-> None] :
        k \in {"Plain", "BGZF"}, t \in ProbeTexts}

\* before open: no Reader exists yet
InitProbe ==
    /\ file \in ProbeFiles
    /\ pos = 0
    /\ format = 0
    /\ index = None
    /\ bgz_buffer = <<>>
    /\ track_line = None
    /\ last_browser = None
    /\ reset_browser = TRUE
    /\ resolver = <<>>
    /\ out = <<>>
    /\ browser_meta = None
    /\ last = [NoCall EXCEPT !.op = "new"]
    /\ hist = [ops |-> {}, nret |-> 0, rew |-> -1]
    /\ given = {}
    /\ peers = <<>>

\* from_reader, o being what open_bed_reader returned: the Reader on Ok,
\* BedFormat(name) when the format was not detected
FromReader(o) ==
    /\ pos' = o.pos
    /\ format' = o.format
    /\ index' = o.index
    /\ last' = IF o.res = "Ok" THEN NoCall
               ELSE IF o.res = "Panic" THEN [NoCall EXCEPT !.status = "panic"]
               ELSE [NoCall EXCEPT !.status = "err", !.err = "BedFormat"]

OpenBedReader ==
    /\ last.op = "new"
    /\ FromReader(open_bed_reader(file))
    /\ UNCHANGED <<file, bgz_buffer, track_line, last_browser, reset_browser,
                   resolver, out, browser_meta, hist, given, peers>>

NextProbe == OpenBedReader

SpecProbe == InitProbe /\ [][NextProbe]_vars

\* C18: blank lines and track and browser lines do not count toward the
\* limit of the probe; the first data line fixes the sub-format, and open
\* fails with BedFormat exactly when no data line settles it
C18_ProbeSkipsBlankAndHeaderLines ==
    last.op = "open" =>
        IF /\ DataLinesOf(LinesOf(Text)) # <<>>
           /\ KindOfCount(FieldCount(DataLinesOf(LinesOf(Text))[1])) # 0
        THEN /\ last.status = "ok"
             /\ format = FieldCount(DataLinesOf(LinesOf(Text))[1])
        ELSE /\ last.status = "err"
             /\ last.err = "BedFormat"

-----------------------------------------------------------------------------
(* Lines of another field count, under SpecMixed                           *)

\* a line of one field
DigitLine == <<"3", "nl">>

\* a line of four fields
LongLine == <<"a", "sp", "1", "sp", "3", "sp", "b", "nl">>

\* a first line of three fields, which fixes the sub-format at open, then
\* lines of one, two, three or four fields
MixedTexts ==
    {Flatten(<<DataLine("a", "1", "3")>> \o ls) :
        ls \in {<<>>} \cup SeqsUpTo({DataLine("a", "1", "3"), ShortLine, DigitLine, LongLine},
                                   MaxRegionLines)}

\* the index of a file with one reference, one chunk holding all its lines
WholeFileIndex(blocks) ==
    [names |-> <<<<"a">>>>,
     refs  |-> <<[bins |-> [b \in {4681} |->
                              <<[start |-> VOffsetAt(blocks, 0),
                                 end   |-> VOffsetAt(blocks, Len(Flatten(blocks)))]>>]]>>]

MixedFiles ==
    UNION {{[kind |-> "BGZF", blocks |-> bl, index |-> Some(WholeFileIndex(bl))] :
              bl \in RegionLayouts(t)} : t \in MixedTexts}

InitMixed == InitWith(MixedFiles)

SpecMixed == InitMixed /\ [][NextRegion]_vars

\* the lines of the text whose field count is not that of the sub-format
OddLines == {i \in 1..Len(LinesOf(Text)) : FieldCount(LinesOf(Text)[i]) # format}

\* C19: the sub-format detected at open holds for every later line: a line
\* of another field count fails the read and gives no record, in read_line
\* and in the bytes a region query parses, where a line of too few fields
\* is never completed with the fields of the line after it
C19_OddLineFailsTheRead ==
    /\ (hist.ops = {"read_line"} /\ last.op = "read_line" /\ last.status = "some")
          => Len(LinesRead) \notin OddLines
    /\ (hist.ops = {"random"} /\ last.op = "read_lines_in_tid" /\ last.tid = <<"a">>
          /\ last.nread = Len(Text) /\ ~last.reused)
          => IF OddLines = {} THEN last.status = "ok" /\ Len(out) = Len(LinesOf(Text))
             ELSE last.status = "err"

-----------------------------------------------------------------------------
(* A line that fails to parse, under SpecMixedStream                       *)

SpecMixedStream == InitMixed /\ [][Next]_vars

\* the lines of the text the reader has not handed out yet
LinesAhead == LinesOf(Drop(Text, Consumed))

\* the reader stands at a data line that parse_record_into rejects
AtFailingLine ==
    /\ LinesAhead # <<>>
    /\ IsDataLine(LinesAhead[1])
    /\ ~parse_record_into(<<>>, LinesAhead[1]).ok

\* C20: when read_line or read_line_with_meta fails to parse a data line, the
\* reader still stands at that line, and the track and the browser state are
\* those of before the call
C20_ParseErrorKeepsTheLine ==
    [][(last'.op \in StreamingOps /\ last'.status = "err" /\ last'.err = "BedMismatch")
         => /\ AtFailingLine'
            /\ track_line' = track_line
            /\ last_browser' = last_browser
            /\ reset_browser' = reset_browser]_vars

-----------------------------------------------------------------------------
(* Errors while the blocks of a region are read, under SpecRegion          *)

\* the compressed offsets the last region query seeks to and reads at
OffsetsRead ==
    UNION {IF c.start < c.end THEN (c.start \div 65536)..(c.end \div 65536) ELSE {} :
             c \in CandidateChunks}

\* C21: an error raised while a block is read during a region query is
\* returned to the caller: the call does not return success with the bytes
\* of the failed block left out
C21_BlockErrorIsReturned ==
    (/\ last.op = "read_lines_in_tid_region"
     /\ last.status # "panic"
     /\ \E b \in OffsetsRead : read_bgzf_block(file, b).res = "Err")
       => last.status = "err"

-----------------------------------------------------------------------------
(* Lines whose start lies after their end, under SpecInterval              *)

IntervalTexts ==
    {Flatten(ls) : ls \in SeqsUpTo({DataLine("a", "1", "3"), DataLine("a", "3", "1"),
                                      DataLine("a", "2", "2")}, MaxRegionLines)}

IntervalFiles ==
    UNION {{[kind |-> "BGZF", blocks |-> bl, index |-> Some(WholeFileIndex(bl))] :
              bl \in RegionLayouts(t)} : t \in IntervalTexts}

InitInterval == InitWith(IntervalFiles)

SpecInterval == InitInterval /\ [][Next]_vars

\* C22: every record handed out by read_line, read_line_with_meta,
\* read_lines_in_tid and read_lines_in_tid_region has start <= end; a line
\* whose start lies after its end gives no record
C22_EmittedIntervalsAreValid ==
    /\ (last.op \in StreamingOps /\ last.status = "some")
          => last.rec[1].start <= last.rec[1].end
    /\ (last.op \in RegionOps /\ last.status = "ok")
          => \A k \in 1..Len(out) : out[k].start <= out[k].end

-----------------------------------------------------------------------------
(* The bytes of a list of ranges, under SpecRange                          *)

RangeText ==
    Flatten(<<DataLine("a", "1", "3"), DataLine("b", "2", "4"), DataLine("a", "1", "3")>>)

RangeFiles == {[kind |-> "BGZF", blocks |-> bl, index |-> None] : bl \in RegionLayouts(RangeText)}

\* offsets inside a block: its start, its middle, past its end
RangeInners == {0, 3, SmallBlock + 2}

\* the virtual offsets a range may name: every compressed offset up to the
\* end-of-file marker, whether a block starts there or not
RangePoints(f) == {VOffset(c, i) : c \in 0..EofOffset(f), i \in RangeInners}

PairPoints == {VOffset(c, i) : c \in {0, BlockCSize}, i \in {0, 3}}

RangesOver(ps) == {[start |-> a, end |-> b] : <<a, b>> \in ps \X ps}

\* one range of any shape, or two ranges among the first blocks
RangeLists(f) ==
    {<<r>> : r \in RangesOver(RangePoints(f))}
      \cup {<<r1, r2>> : <<r1, r2>> \in RangesOver(PairPoints) \X RangesOver(PairPoints)}

InitRange == InitWith(RangeFiles)

CalledReadBytes(region, checks, from, x) ==
    [op |-> "read_bgzf_bytes_for_region", status |-> IF x.res = "Ok" THEN "ok" ELSE "panic",
     err |-> "", track |-> None, rec |-> None, tid |-> <<>>, start |-> 0, end |-> 0,
     reused |-> FALSE, nread |-> 0, io |-> x.io, region |-> region, checks |-> checks,
     from |-> from, buf |-> x.buf]

\* x is what read_bgzf_bytes_for_region returned
BytesForRegionRead(region, checks, x) ==
    /\ pos' = x.pos
    /\ last' = CalledReadBytes(region, checks, pos, x)

\* one call of read_bgzf_bytes_for_region on the opened reader, by a build
\* with or without overflow checks
ReadBgzfBytesForRegion ==
    /\ last.op = "open"
    /\ \E region \in RangeLists(file), checks \in BOOLEAN :
         BytesForRegionRead(region, checks,
                            IF checks THEN read_bgzf_bytes_for_region(file, pos, region)
                            ELSE read_bgzf_bytes_for_region_wrapping(file, pos, region))
    /\ UNCHANGED <<file, format, index, bgz_buffer, track_line, last_browser,
                   reset_browser, resolver, out, browser_meta, hist, given, peers>>

NextRange == ReadBgzfBytesForRegion

SpecRange == InitRange /\ [][NextRange]_vars

\* the bytes of block i that lie between the virtual offsets a and b
BlockSlice(f, i, a, b) ==
    LET off == (i - 1) * BlockCSize
        n   == Len(f.blocks[i])
        lo  == IF off = a \div 65536 THEN Min({a % 65536, n}) ELSE 0
        hi  == IF off = b \div 65536 THEN Min({b % 65536, n}) ELSE n
    IN  IF off < a \div 65536 \/ off > b \div 65536 \/ lo >= hi THEN <<>>
        ELSE SubSeq(f.blocks[i], lo + 1, hi)

\* the decompressed bytes of the file between the virtual offsets a and b
BytesBetween(f, a, b) == Flatten([i \in 1..Len(f.blocks) |-> BlockSlice(f, i, a, b)])

\* C23: for one range [a, b) with a < b, read_bgzf_bytes_for_region returns
\* exactly the bytes between a and b: the tail of the first block, every
\* block between in full, the head of the last block, each bound clamped to
\* the length of its block.
C23_RangeBytesAreExact ==
    (/\ last.op = "read_bgzf_bytes_for_region"
     /\ Len(last.region) = 1
     /\ last.region[1].start < last.region[1].end)
       => /\ last.status = "ok"
          /\ last.buf = BytesBetween(file, last.region[1].start, last.region[1].end)

\* a range from the middle of the first block to the middle of the third
C23_Witness ==
    /\ last.op = "read_bgzf_bytes_for_region"
    /\ Len(file.blocks) = 3
    /\ last.region = <<[start |-> VOffset(0, 3), end |-> VOffset(2 * BlockCSize, 3)]>>
    /\ last.status = "ok"
    /\ Len(last.buf) = (SmallBlock - 3) + SmallBlock + 3

\* the ranges of a region that end after they start
ProperRanges(region) == SelectSeq(region, LAMBDA r : r.start < r.end)

\* what the loop over the ranges that end after they start returns
ProperRangesRead ==
    RegionBytes(ReadRanges(file, [pos |-> last.from, cur |-> None, buf |-> <<>>, io |-> 0],
                           ProperRanges(last.region)))

\* C24: a range [a, b) with a >= b is empty: a call whose list holds one
\* completes normally, and returns the bytes of the other ranges with the
\* seeks and reads of the other ranges only.
C24_EmptyRangeAddsNothing ==
    (/\ last.op = "read_bgzf_bytes_for_region"
     /\ \E i \in 1..Len(last.region) : last.region[i].start >= last.region[i].end)
       => /\ last.status = "ok"
          /\ last.buf = ProperRangesRead.buf
          /\ last.io = ProperRangesRead.io

-----------------------------------------------------------------------------
(* The lines of a text split into blocks, under SpecLines                  *)

\* a data line whose name is the two-byte character
AccentLine == <<"c3", "a9", "sp", "1", "sp", "3", "nl">>

\* a line of white space
SpaceLine == <<"sp", "nl">>

\* a first data line, then up to MaxRegionLines lines of any kind, the last
\* one with or without its line feed
LineTexts ==
    UNION {{DataLine("a", "1", "3") \o Flatten(ls),
            Take(DataLine("a", "1", "3") \o Flatten(ls),
                 Len(DataLine("a", "1", "3") \o Flatten(ls)) - 1)} :
             ls \in SeqsUpTo({DataLine("b", "2", "4"), BlankLine, SpaceLine, AccentLine},
                             MaxRegionLines)}

\* blocks of n bytes, from the start of the text or after a first block that
\* holds the first line
LineLayouts(t) ==
    {Split(t, n) : n \in (1..SmallBlock) \cup {Len(t)}}
      \cup {<<Take(t, Len(DataLine("a", "1", "3")))>>
               \o Split(Drop(t, Len(DataLine("a", "1", "3"))), n) : n \in 1..SmallBlock}

LineFiles ==
    UNION {{[kind |-> "BGZF", blocks |-> bl, index |-> None] : bl \in LineLayouts(t)} :
             t \in LineTexts}

InitLines == InitWith(LineFiles)

\* lines: the lines the calls before returned, then the line of this one
CalledReadBgzfLine(x, before) ==
    [op |-> "read_bgzf_line",
     status |-> IF x.res = "Some" THEN "some" ELSE IF x.res = "None" THEN "none" ELSE "err",
     err |-> IF x.res = "Err" THEN "BedFormat" ELSE "", track |-> None, rec |-> None,
     tid |-> <<>>, start |-> 0, end |-> 0, reused |-> FALSE, nread |-> 0, io |-> 0,
     line |-> x.line, lines |-> IF x.res = "Some" THEN Append(before, x.line) ELSE before]

\* x is what read_bgzf_line returned
BgzfLineRead(x) ==
    /\ SetSelf(x.r)
    /\ last' = CalledReadBgzfLine(x, IF last.op = "read_bgzf_line" THEN last.lines ELSE <<>>)

ReadBgzfLine ==
    /\ Alive
    /\ BgzfLineRead(read_bgzf_line(file, Self))
    /\ UNCHANGED <<file, format, index, out, browser_meta, hist, given, peers>>

NextLines == ReadBgzfLine

SpecLines == InitLines /\ [][NextLines]_vars

\* the lines of t that are not white space only
NonBlankLines(t) == SelectSeq(LinesOf(t), LAMBDA l : ~IsBlank(l))

IsPrefix(a, b) == Len(a) <= Len(b) /\ a = Take(b, Len(a))

\* C25: however the text is split into blocks, the lines that successive
\* read_bgzf_line calls return are the non-blank lines of the text, whole
\* and in order, the last one with or without its line feed; None comes
\* when all of them were returned, and no call fails.
C25_LinesSurviveAnySplit ==
    last.op = "read_bgzf_line"
      => /\ last.status # "err"
         /\ IsPrefix(last.lines, NonBlankLines(Text))
         /\ last.status = "none" => last.lines = NonBlankLines(Text)

-----------------------------------------------------------------------------
(* The AutoReader facade: src/src/bed/autoreader.rs, src/src/bed/record.rs *)

\* IntoAnyBedRecord::into_any for BedRecord<_, _, Bed3Fields>
into_any(rec) == [variant |-> "Bed3", rec |-> rec]

\* the records of a Vec<AnyBedRecord>, unwrapped
Unwrapped(recs) == [i \in 1..Len(recs) |-> recs[i].rec]

\* the records of a Vec<BedRecord>, each wrapped by into_any
Wrapped(recs) == [i \in 1..Len(recs) |-> into_any(recs[i])]

\* the loop `while !cursor.is_empty()` of the facade: [ok, out, store]; the
\* scratch record is pushed after the parse that filled it
RECURSIVE AutoParseLoop(_, _, _)

\* one turn of the loop, p being the outcome of parse_record_into
AutoParseStep(acc, p) ==
    IF ~p.ok THEN [ok |-> FALSE, out |-> acc, store |-> p.store]
    ELSE AutoParseLoop(p.store, p.rest, Append(acc, into_any(p.rec)))

\* one turn of the loop, scratch being the blank record
AutoParseScratch(acc, cursor, scratch) ==
    AutoParseStep(acc, parse_record_into(scratch.store, cursor))

AutoParseLoop(store, cursor, acc) ==
    IF cursor = <<>> THEN [ok |-> TRUE, out |-> acc, store |-> store]
    ELSE AutoParseScratch(acc, cursor, blank_record(store))

\* Reader::read_bytes_for_region of a BGZF reader
read_bytes_for_region(f, p, ranges) == read_bgzf_bytes_for_region(f, p, ranges)

\* the bytes b parsed into out, p being the outcome of the loop
AutoBytesParsed(r, b, p) ==
    RegionResult([r EXCEPT !.pos = b.pos, !.resolver = p.store],
                 IF p.ok THEN "parsed" ELSE "err",
                 IF p.ok THEN "" ELSE "BedMismatch",
                 p.out, Len(b.buf), b.io)

\* the bytes b read for the ranges: out is cleared whatever was read
AutoBytesRead(r, o, b) ==
    IF b.res = "Panic" THEN RegionResult(r, "panic", "", o, 0, 0)
    ELSE AutoBytesParsed(r, b, AutoParseLoop(r.resolver, b.buf, <<>>))

AutoReadAndParse(f, r, ranges, o) ==
    AutoBytesRead(r, o, read_bytes_for_region(f, r.pos, ranges))

\* <Reader as AutoReader>::read_lines_in_tid: [r, status, err, out, nread, io]
AutoReader_read_lines_in_tid(f, r, ixo, offs, ranges, o) ==
    IF f.kind = "Plain" THEN RegionResult(r, "err", "PlainBedRegion", o, 0, 0)
    ELSE IF ixo = None THEN RegionResult(r, "err", "TabixNotOpen", o, 0, 0)
    ELSE IF offs.res = "Panic" THEN RegionResult(r, "panic", "", o, 0, 0)
    ELSE IF ~offs.found THEN RegionResult(r, "ok", "", <<>>, 0, 0)
    ELSE TidParsed(AutoReadAndParse(f, r, ranges, o))

\* Vec::retain on the wrapped records
RECURSIVE AutoRetain(_, _, _, _)
AutoRetain(recs, tid_id, start, end) ==
    IF recs = <<>> THEN <<>>
    ELSE IF /\ Head(recs).rec.tid = tid_id
            /\ Head(recs).rec.start < end
            /\ Head(recs).rec.end > start
    THEN <<Head(recs)>> \o AutoRetain(Tail(recs), tid_id, start, end)
    ELSE AutoRetain(Tail(recs), tid_id, start, end)

\* the end of the facade's read_lines_in_tid_region: tid_id is what find
\* returned
AutoRegionRetained(rp, tid_id, start, end) ==
    IF tid_id = None THEN [rp EXCEPT !.status = "err", !.err = "BedFormat"]
    ELSE [rp EXCEPT !.status = "ok", !.out = AutoRetain(rp.out, tid_id[1], start, end)]

AutoRegionParsed(rp, tid, start, end) ==
    IF rp.status # "parsed" THEN rp
    ELSE AutoRegionRetained(rp, find(rp.r.resolver, tid), start, end)

\* <Reader as AutoReader>::read_lines_in_tid_region: [r, status, err, out,
\* nread, io]
AutoReader_read_lines_in_tid_region(f, r, ixo, offs, ranges, tid, start, end, o) ==
    IF f.kind = "Plain" THEN RegionResult(r, "err", "PlainBedRegion", o, 0, 0)
    ELSE IF ixo = None THEN RegionResult(r, "err", "TabixNotOpen", o, 0, 0)
    ELSE IF offs.res = "Panic" THEN RegionResult(r, "panic", "", o, 0, 0)
    ELSE IF ~offs.found THEN RegionResult(r, "ok", "", <<>>, 0, 0)
    ELSE AutoRegionParsed(AutoReadAndParse(f, r, ranges, o), tid, start, end)

\* the Option<AnyBedRecord> the facade makes of the record of a streaming call
AutoRecord(rec) == IF rec = None THEN None ELSE Some(into_any(rec[1]))

(* The facade next to the typed reader, under SpecAuto: out holds the      *)
(* Vec<AnyBedRecord> of the caller; every call is made on the facade, and  *)
(* last.typed is what the typed reader returns for the same call made in   *)
(* the same state with the same records in its out.  last.lockstep says    *)
(* that the calls before had the same outcome on both.                     *)

InLockstep == last.op = "open" \/ (last.lockstep /\ last.agree)

AutoCalled(op, status, err, track, rec, tid, start, end, nread, io, typed, agree) ==
    [op |-> op, status |-> status, err |-> err, track |-> track, rec |-> rec,
     tid |-> tid, start |-> start, end |-> end, reused |-> (out # <<>>),
     nread |-> nread, io |-> io, typed |-> typed, agree |-> agree,
     lockstep |-> InLockstep]

\* x is what the facade returned for a streaming call, t what the typed
\* reader returned
AutoStreamed(op, x, t) ==
    /\ SetSelf(x.r)
    /\ last' = AutoCalled(op, x.ret.status, x.ret.err, x.ret.track, AutoRecord(x.ret.rec),
                          <<>>, 0, 0, 0, 0,
                          [status |-> t.ret.status, err |-> t.ret.err,
                           rec |-> t.ret.rec, out |-> Unwrapped(out)],
                          x.r = t.r)
    /\ hist' = Note(op, x.ret.status)

AutoReadLine ==
    /\ Alive
    /\ AutoStreamed("read_line", read_line(file, Self), read_line(file, Self))
    /\ UNCHANGED <<file, format, index, out, browser_meta, given, peers>>

AutoStreamedWithMeta(x, t) ==
    /\ AutoStreamed("read_line_with_meta", x, t)
    /\ browser_meta' = x.meta

AutoReadLineWithMeta ==
    /\ Alive
    /\ AutoStreamedWithMeta(read_line_with_meta(file, Self, browser_meta),
                            read_line_with_meta(file, Self, browser_meta))
    /\ UNCHANGED <<file, format, index, out, given, peers>>

\* x is what the facade returned for a region query, t what the typed
\* reader returned
AutoQueried(op, tid, start, end, x, t) ==
    /\ SetSelf(x.r)
    /\ out' = x.out
    /\ last' = AutoCalled(op, x.status, x.err, None, None, tid, start, end, x.nread, x.io,
                          [status |-> t.status, err |-> t.err, rec |-> None, out |-> t.out],
                          x.r = t.r /\ x.status = t.status /\ x.err = t.err
                            /\ x.out = Wrapped(t.out))
    /\ hist' = Note(op, x.status)

AutoQueryTid(tid, offs) ==
    \E ranges \in offs.lists :
        AutoQueried("read_lines_in_tid", tid, 0, 0,
                    AutoReader_read_lines_in_tid(file, Self, index, offs, ranges, out),
                    read_lines_in_tid(file, Self, index, offs, ranges, Unwrapped(out)))

AutoReadLinesInTid ==
    /\ Alive
    /\ \E tid \in QueryNames :
         AutoQueryTid(tid, IF index = None THEN NoOffsets
                           ELSE offsets_for_tid(index[1], tid))
    /\ UNCHANGED <<file, format, index, browser_meta, given, peers>>

AutoQueryTidRegion(tid, start, end, offs) ==
    \E ranges \in offs.lists :
        AutoQueried("read_lines_in_tid_region", tid, start, end,
                    AutoReader_read_lines_in_tid_region(file, Self, index, offs, ranges,
                                                        tid, start, end, out),
                    read_lines_in_tid_region(file, Self, index, offs, ranges,
                                             tid, start, end, Unwrapped(out)))

AutoReadLinesInTidRegion ==
    /\ Alive
    /\ \E tid \in QueryNames, q \in QueryRegions :
         AutoQueryTidRegion(tid, q[1], q[2],
                            IF index = None THEN NoOffsets
                            ELSE offsets_for_tid_region(index[1], tid, q[1], q[2]))
    /\ UNCHANGED <<file, format, index, browser_meta, given, peers>>

NextAuto ==
    \/ AutoReadLine
    \/ AutoReadLineWithMeta
    \/ AutoReadLinesInTid
    \/ AutoReadLinesInTidRegion

SpecAuto == InitRegion /\ [][NextAuto]_vars

\* C26: on the same input and after the same calls, a call on the AutoReader
\* facade has the outcome of the same call on the typed reader: the same
\* status and error, the same record wrapped in the variant of the
\* sub-format, and the same records, wrapped, in out.
C26_FacadeMatchesTypedReader ==
    (last.op # "open" /\ last.lockstep)
      => /\ last.status = last.typed.status
         /\ last.err = last.typed.err
         /\ last.rec = AutoRecord(last.typed.rec)
         /\ out = Wrapped(last.typed.out)

-----------------------------------------------------------------------------
(* read_line and read_line_with_meta mixed on one reader, under Spec       *)

\* C27: when read_line and read_line_with_meta calls are mixed on a BGZF
\* reader, the browser block written with a record is the one formed by the
\* most recent run of browser lines before the record, whichever call
\* consumed those lines and the data lines that close a block.
C27_MixedCallsKeepTheBlock ==
    (/\ file.kind = "BGZF"
     /\ hist.ops = StreamingOps
     /\ last.op = "read_line_with_meta"
     /\ last.status = "some")
    => browser_meta = BrowserBlock(LinesRead, None, TRUE)

-----------------------------------------------------------------------------
(* The bins of the records a region overlaps, under SpecBins               *)

\* the bin of the interval [rs, re): the smallest bin of the six levels that
\* holds both rs and re - 1
Reg2Bin(rs, re) ==
    IF rs \div 2^14 = (re - 1) \div 2^14 THEN 4681 + rs \div 2^14
    ELSE IF rs \div 2^17 = (re - 1) \div 2^17 THEN 585 + rs \div 2^17
    ELSE IF rs \div 2^20 = (re - 1) \div 2^20 THEN 73 + rs \div 2^20
    ELSE IF rs \div 2^23 = (re - 1) \div 2^23 THEN 9 + rs \div 2^23
    ELSE IF rs \div 2^26 = (re - 1) \div 2^26 THEN 1 + rs \div 2^26
    ELSE 0

\* the intervals [rs, re) with re <= 2^29 that overlap [s, e)
OverlappingIntervals(s, e) ==
    {iv \in BinPositions \X BinPositions :
        iv[1] < iv[2] /\ iv[2] <= 2^29 /\ iv[1] < e /\ iv[2] > s}

\* C28: for a region [s, e) with s < e, the bin of every interval [rs, re)
\* with rs < re <= 2^29 that overlaps the region is among the bins
\* region_bins(s, e) returns, and every bin returned lies in 0..37448.
C28_BinsCoverOverlappingRecords ==
    (last.op = "region_bins" /\ last.start < last.end)
      => /\ \A iv \in OverlappingIntervals(last.start, last.end) :
              \E i \in 1..Len(last.bins) : last.bins[i] = Reg2Bin(iv[1], iv[2])
         /\ \A i \in 1..Len(last.bins) : last.bins[i] \in 0..37448

\* a region of one position overlapped by an interval that straddles two
\* bins of the last level
C28_Witness ==
    /\ last.op = "region_bins"
    /\ last.start = 16384
    /\ last.end = 16385
    /\ <<16383, 16385>> \in OverlappingIntervals(last.start, last.end)
    /\ Reg2Bin(16383, 16385) = 585
    /\ \E i \in 1..Len(last.bins) : last.bins[i] = 585

-----------------------------------------------------------------------------
(* Records returned more than once, under SpecRegion                       *)

\* the lines of the text that spell the record rec
LinesSpelling(rec) ==
    {i \in 1..Len(LinesOf(Text)) :
        /\ IsDataLine(LinesOf(Text)[i])
        /\ LineRecord(LinesOf(Text)[i]) = Resolved(resolver, rec)}

\* C29: one read_lines_in_tid or read_lines_in_tid_region call returns each
\* record of the file at most once: a record is in out no more often than
\* the file has lines that spell it, however the chunks of the bins overlap.
C29_EachRecordAtMostOnce ==
    (last.op \in RegionOps /\ last.status = "ok" /\ last.nread > 0)
      => \A k \in 1..Len(out) :
            Cardinality({j \in 1..Len(out) : out[j] = out[k]})
              <= Cardinality(LinesSpelling(out[k]))

-----------------------------------------------------------------------------
(* An index that declares no reference, under SpecEmptyIndex               *)

\* n_ref = 0 and an empty name block
EmptyIndex == [names |-> <<>>, refs |-> <<>>]

\* BGZF files whose index declares no reference, next to the indexed files
EmptyIndexFiles ==
    RegionFiles
      \cup UNION {{[kind |-> "BGZF", blocks |-> bl, index |-> Some(EmptyIndex)] :
                     bl \in RegionLayouts(t)} : t \in RegionTexts}

\* before open: no Reader exists yet
InitEmptyIndex ==
    /\ file \in EmptyIndexFiles
    /\ pos = 0
    /\ format = 0
    /\ index = None
    /\ bgz_buffer = <<>>
    /\ track_line = None
    /\ last_browser = None
    /\ reset_browser = TRUE
    /\ resolver = <<>>
    /\ out = <<>>
    /\ browser_meta = None
    /\ last = [NoCall EXCEPT !.op = "new"]
    /\ hist = [ops |-> {}, nret |-> 0, rew |-> -1]
    /\ given = {}
    /\ peers = <<>>

SpecEmptyIndex == InitEmptyIndex /\ [][NextProbe]_vars

\* C30: loading an index that declares no reference ends with a value, an
\* index or an error, and never with an access past the end of the empty
\* list of references; on an index loaded that way every name is absent.
C30_EmptyIndexLoads ==
    (last.op = "open" /\ file.index = Some(EmptyIndex))
      => /\ last.status # "panic"
         /\ (last.status = "ok" /\ index # None)
              => \A tid \in QueryNames : ~offsets_for_tid(index[1], tid).found

====
